---- MODULE Spec2Model ----
(***************************************************************************)
(* Two-factor registration / login flow of the Meteorology backend.        *)
(*                                                                         *)
(* The four HTTP handlers of myvenv/src/routers/auth.py run as concurrent  *)
(* calls.  Every `await` on a store (the users table, Redis) or on the     *)
(* SMTP notifier is one atomic step of a call, so the steps of different   *)
(* calls interleave exactly where the asyncio event loop may switch tasks. *)
(* Time passes through Tick, which ages every Redis entry by one unit.     *)
(***************************************************************************)
EXTENDS Integers, Sequences, FiniteSets, TLC

(***************************************************************************)
(* Bounds of the model.                                                    *)
(***************************************************************************)
\* total number of HTTP calls started in one behaviour
MaxCalls == 2
\* number of calls that may be in flight at the same time
MaxInFlight == 2
\* number of calls that one client issues one after the other
MaxSequentialCalls == MaxCalls + 1
\* settings.CODE_EXPIRATION_SECONDS, counted in Tick units (environment-set)
CODE_EXPIRATION_SECONDS == 2
\* number of method calls made on the RedisClient singleton
MaxOps == 3
\* number of times the application is started and stopped in one process
MaxRuns == 2
\* number of calls followed through the steps of the Notifier
MaxMailCalls == MaxCalls - 1

(***************************************************************************)
(* Inputs.                                                                 *)
(***************************************************************************)
Emails == {"a@x.com", "b@x.com"}
Passwords == {"pw1", "pw2"}
Salts == {"s1"}

\* random.randint(1000, 9999): the two ends of the range
MinCode == 1000
MaxCode == 9999
\* generate_verification_code: str(random.randint(1000, 9999))
generate_verification_code == {ToString(MinCode), ToString(MaxCode)}
\* codes a client may submit
SubmittedCodes == generate_verification_code

\* Python's None, one per type of value it stands in for
None == "None"
NoHash == [scheme |-> "none", salt |-> "none", digest |-> <<>>]
NoUser == [id |-> 0, email |-> "none", hashed_password |-> NoHash,
           is_active |-> FALSE, is_verified |-> FALSE]
NoResponse == [status |-> 0, detail |-> "none"]
NoError == [at |-> "none", text |-> "none"]

(***************************************************************************)
(* Password hasher (passlib bcrypt): salted hash, verify re-hashes with    *)
(* the salt stored in the hash.                                            *)
(***************************************************************************)
get_password_hash(password, salt) ==
    [scheme |-> "bcrypt", salt |-> salt, digest |-> <<salt, password>>]

verify_password(plain_password, hashed_password) ==
    get_password_hash(plain_password, hashed_password.salt) = hashed_password

(***************************************************************************)
(* Token issuer: the payload that jwt.encode signs.                        *)
(***************************************************************************)
create_access_token(data) == [sub |-> data.sub, signed |-> TRUE]

\* The same function with its clock.  Times are minutes; datetime.now() is
\* the naive local wall clock, and jwt.encode turns a naive datetime into
\* the exp number with timegm(utctimetuple()), which reads it as UTC.
ACCESS_TOKEN_EXPIRE_MINUTES == 30
\* expires_delta: None, or a timedelta
NoDelta == [passed |-> FALSE, minutes |-> 0]
timedelta(minutes) == [passed |-> TRUE, minutes |-> minutes]
\* Python truth value: None and timedelta(0) are false
Truthy(delta) == delta.passed /\ delta.minutes # 0
datetime_now(utcnow, utcoffset) == utcnow + utcoffset
\* to_encode = data.copy(); to_encode.update({"exp": expire})
to_encode(data, expires_delta, now) ==
    ("exp" :> now + (IF Truthy(expires_delta) THEN expires_delta.minutes
                     ELSE ACCESS_TOKEN_EXPIRE_MINUTES)) @@ data
\* the claims a verifier reads back from the signed token
jwt_encode(payload) == payload
NoPayload == [sub |-> "none"]

(***************************************************************************)
(* State.                                                                  *)
(***************************************************************************)
VARIABLES
    users,         \* the users table: sequence of rows, id = autoincrement
    redis,         \* key -> Absent | Expired | [value, ttl]
    calls,         \* every HTTP call started so far, in start order
    database,      \* the Database singleton: engine, _is_connected
    redis_client,  \* the RedisClient singleton: client, _is_initialized
    lifespan,      \* position and history of the lifespan context manager
    trace,         \* the method calls made on redis_client, with outcomes
    token,         \* one call of create_access_token: arguments, clock, result
    settings,      \* the e-mail settings of the process
    mail,          \* the calls of send_verification_email, in start order
    locations,     \* the locations table: sequence of rows, id = autoincrement
    search_history,\* the search_history table: sequence of rows, id = position
    searches,      \* the calls of the meteorology functions, in start order
    _cache,        \* cache.py: cache key -> cached result
    _cache_expiry, \* cache.py: cache key -> expiry time
    clock,         \* datetime.now() as the cache wrapper reads it
    wrapped        \* the calls of the simple_cache wrapper, in start order

\* the state of the meteorology package
meteorology ==
    <<locations, search_history, searches, _cache, _cache_expiry, clock, wrapped>>

\* the objects of the process around the handlers
process ==
    <<database, redis_client, lifespan, trace, token, settings, mail, meteorology>>

vars == <<users, redis, calls, process>>

(***************************************************************************)
(* Credential store: table users (models.User) and UserRepository.         *)
(***************************************************************************)
\* User(**user_data): columns not passed take the column defaults
User(id, user_data) ==
    [id |-> id, email |-> user_data.email,
     hashed_password |-> user_data.hashed_password,
     is_active |-> TRUE, is_verified |-> FALSE]

RowsOf(table, email) == {i \in DOMAIN table : table[i].email = email}

\* UserRepository.get_user_by_email: first row with that email, or None
get_user_by_email(table, email) ==
    IF RowsOf(table, email) = {} THEN NoUser
    ELSE table[CHOOSE i \in RowsOf(table, email) :
                   \A j \in RowsOf(table, email) : i <= j]

\* mutant: the email column without its unique constraint
UniqueViolation_NoConstraint(table, email) == FALSE

\* email = Column(String, unique=True): the commit raises IntegrityError
UniqueViolation(table, email) == RowsOf(table, email) # {}

\* session.add(user); session.commit(): the table after a successful commit
Commit(table, user_data) == Append(table, User(Len(table) + 1, user_data))

(***************************************************************************)
(* Ephemeral secret store (Redis) behind RedisClient.                      *)
(***************************************************************************)
Absent == [state |-> "absent"]
Expired == [state |-> "expired"]
Live(value, ttl) == [state |-> "live", value |-> value, ttl |-> ttl]

RegKey(email) == <<"reg_confirm", email>>
PwdKey(email) == <<"pwd_hash", email>>
\* mutant: one login code key for all emails
LoginKey_Shared(email) == <<"login_code", "a@x.com">>

LoginKey(email) == <<"login_code", email>>
Keys == {RegKey(e) : e \in Emails} \cup {PwdKey(e) : e \in Emails}
            \cup {LoginKey(e) : e \in Emails}

\* RedisClient.get(key): the value, or None for a missing or expired key
Get(store, key) ==
    IF store[key].state = "live" THEN store[key].value
    ELSE IF key[1] = "pwd_hash" THEN NoHash ELSE None
\* the registration keys of an email on which get returns a value
LiveKeys(store, email) ==
    {k \in {RegKey(email), PwdKey(email)} : store[k].state = "live"}

\* mutant: the entry lives longer than the time passed
Setex_LongerTime(store, key, time, value) ==
    [store EXCEPT ![key] = Live(value, time + 1)]

\* mutant: SET NX, a live entry is not replaced
Setex_KeepExisting(store, key, time, value) ==
    IF store[key].state = "live" THEN store
    ELSE [store EXCEPT ![key] = Live(value, time)]

\* RedisClient.setex(key, time, value)
Setex(store, key, time, value) == [store EXCEPT ![key] = Live(value, time)]
\* mutant: the key is not removed
Delete_Noop(store, key) == store

\* redis_client.client.delete(key)
Delete(store, key) == [store EXCEPT ![key] = Absent]

(***************************************************************************)
(* The process around the handlers: the Database and RedisClient           *)
(* singletons and the lifespan context manager of the application.  An     *)
(* awaited library call either returns or raises; `ok` is that outcome.    *)
(***************************************************************************)
NewDatabase == [engine |-> None, _is_connected |-> FALSE]

\* Database.connect: returns at once when connected; the engine is assigned
\* before create_all runs, the flag only after it
DatabaseConnect(db, ok) ==
    IF db._is_connected THEN db
    ELSE [engine |-> "AsyncEngine", _is_connected |-> ok]
ConnectRaises(db, ok) == ~db._is_connected /\ ~ok

\* Database.disconnect: a raising engine.dispose() skips the flag reset
DisconnectRaises(db, ok) == db.engine # None /\ ~ok
DatabaseDisconnect(db, ok) ==
    IF DisconnectRaises(db, ok) THEN db ELSE [db EXCEPT !._is_connected = FALSE]

NewRedisClient == [client |-> None, _is_initialized |-> FALSE]

\* RedisClient.initialize: returns at once when initialized; the client is
\* assigned before the ping, the flag only after it; a failure is re-raised
InitializeRaises(rc, ok) == ~rc._is_initialized /\ ~ok
RedisInitialize(rc, ok) ==
    IF rc._is_initialized THEN rc
    ELSE [client |-> "Redis", _is_initialized |-> ok]

\* RedisClient.close: a raising client.close() skips the flag reset; the
\* client attribute is never cleared
CloseRaises(rc, ok) == rc.client # None /\ ~ok
RedisClose(rc, ok) ==
    IF CloseRaises(rc, ok) THEN rc ELSE [rc EXCEPT !._is_initialized = FALSE]

\* the lifespan before the application is started
NewLifespan ==
    [pc |-> "idle", run |-> 0, raised |-> FALSE,
     \* history of the current run, read by the properties only:
     \* whether each resource reached its connected / initialized state,
     connected |-> FALSE, initialized |-> FALSE,
     \* how often each was closed, and whether a close raised
     disconnects |-> 0, closes |-> 0, disconnect_raised |-> FALSE]

\* no call of create_access_token is followed
NoTokenCall ==
    [data |-> [sub |-> "none"], expires_delta |-> NoDelta,
     utcnow |-> 0, utcoffset |-> 0, encoded |-> NoPayload]

\* Settings: the four values send_verification_email needs, as the set of
\* those left empty, and EMAIL_USE_SSL
EmailSettings == {"EMAIL_HOST", "EMAIL_PORT", "EMAIL_HOST_USER", "EMAIL_HOST_PASSWORD"}
Configured == [unset |-> {}, EMAIL_USE_SSL |-> TRUE]

\* no meteorology function has run: empty tables, empty cache
MeteorologyIdle ==
    /\ locations = <<>>
    /\ search_history = <<>>
    /\ searches = <<>>
    /\ _cache = <<>>
    /\ _cache_expiry = <<>>
    /\ clock = 0
    /\ wrapped = <<>>

\* the handlers run while the application serves: after the startup half of
\* the lifespan has connected the database and initialized Redis
ServingObjects ==
    /\ database = DatabaseConnect(NewDatabase, TRUE)
    /\ redis_client = RedisInitialize(NewRedisClient, TRUE)
    /\ lifespan = [NewLifespan EXCEPT !.pc = "yield", !.run = 1,
                                      !.connected = TRUE, !.initialized = TRUE]
    /\ trace = <<>>
    /\ token = NoTokenCall

Serving ==
    /\ ServingObjects
    /\ settings = Configured
    /\ mail = <<>>
    /\ MeteorologyIdle

(***************************************************************************)
(* HTTP responses: status and detail of every HTTPException, and the       *)
(* bodies of the successful returns.                                       *)
(***************************************************************************)
AlreadyRegistered == [status |-> 400, detail |-> "Email already registered"]
NotificationFailure == [status |-> 500, detail |-> "Could not send the confirmation code"]
InvalidOrExpiredCode == [status |-> 400, detail |-> "Wrong confirmation code"]
PasswordContextExpired == [status |-> 400, detail |-> "Code lifetime expired, start registration again"]
DuplicateUser == [status |-> 400, detail |-> "User with this email already exists"]
InvalidCredentials == [status |-> 400, detail |-> "Incorrect email or password"]
UserNotFound == [status |-> 400, detail |-> "User not found"]

RegisterAccepted(email) ==
    [status |-> 202, detail |-> "Confirmation code sent", email |-> email]
VerifyCreated(user, access_token) ==
    [status |-> 201, detail |-> "User registered", user_id |-> user.id,
     email |-> user.email, access_token |-> access_token]
LoginCodeSent == [status |-> 200, detail |-> "Confirmation code sent"]
LoginOk(user, access_token) ==
    [status |-> 200, detail |-> "Login successful", user_id |-> user.id,
     email |-> user.email, access_token |-> access_token]

\* an exception that leaves the handler: the framework's plain 500
InternalServerError == [status |-> 500, detail |-> "Internal Server Error"]
\* detail=f"Ошибка при создании пользователя: {str(e)}"
VerifyError(text) ==
    [status |-> 500, detail |-> "User creation error", error |-> text]
\* detail=f"Ошибка при входе: {str(e)}"
LoginError(text) ==
    [status |-> 500, detail |-> "Login error", error |-> text]

(***************************************************************************)
(* Calls.  A handler runs without interruption from the arrival of the     *)
(* request to its first await, so a call starts with its first store       *)
(* access; every later await is a step of its own.                         *)
(***************************************************************************)
NewCall(op, email, password, code, before) ==
    [op |-> op, email |-> email, password |-> password, code |-> code,
     pc |-> "start",
     \* locals of the handler
     user |-> NoUser, stored_code |-> None, password_hash |-> NoHash,
     sent_code |-> None,
     \* the response sent to the client
     resp |-> NoResponse,
     \* history, read by the properties only:
     \* what the call did so far
     wrote |-> {}, deleted |-> {}, mailed |-> FALSE, created |-> FALSE,
     \* the arguments of every setex of the call: <<key, time, value>>
     stored |-> {},
     \* the keys the call has read
     read |-> {},
     \* the code handed to the Notifier, and the keys written by then
     mail_code |-> None, mail_after |-> {},
     \* the calls that had returned when this one started
     before |-> before,
     \* whether the email had a users row when this call started
     had_user |-> RowsOf(users, email) # {},
     \* the state of the code entry when the handler read it
     saw |-> None,
     \* the registration keys that were live when the call returned
     left |-> {},
     \* the await that raised, and str(e) of the exception
     error |-> NoError]

Done(c) == c.pc = "done"
Finished == {i \in DOMAIN calls : Done(calls[i])}
InFlight == {i \in DOMAIN calls : ~Done(calls[i])}

Return(c, response) == [c EXCEPT !.pc = "done", !.resp = response]

(***************************************************************************)
(* The stores outlive the server process: when the application starts, the *)
(* users table and Redis hold what earlier runs of these handlers left.    *)
(* The snapshots below are the store contents after, in turn: nothing; a   *)
(* register call; register and verify; register, verify and                *)
(* send_login_code, each as the handlers below leave them.                 *)
(***************************************************************************)
FirstEmail == "a@x.com"
FirstPassword == "pw1"
FirstSalt == "s1"
FirstCode == ToString(MinCode)

EmptyRedis == [k \in Keys |-> Absent]
RegisteredUser ==
    <<User(1, [email |-> FirstEmail,
               hashed_password |-> get_password_hash(FirstPassword, FirstSalt)])>>
PendingRegistration ==
    Setex(Setex(EmptyRedis, RegKey(FirstEmail), CODE_EXPIRATION_SECONDS, FirstCode),
          PwdKey(FirstEmail), CODE_EXPIRATION_SECONDS,
          get_password_hash(FirstPassword, FirstSalt))
PendingLogin ==
    Setex(EmptyRedis, LoginKey(FirstEmail), CODE_EXPIRATION_SECONDS, FirstCode)

Snapshots ==
    { <<(<<>>), EmptyRedis>>,
      <<(<<>>), PendingRegistration>>,
      <<RegisteredUser, EmptyRedis>>,
      <<RegisteredUser, PendingLogin>> }

Init ==
    /\ \E s \in Snapshots : users = s[1] /\ redis = s[2]
    /\ calls = <<>>
    /\ Serving

\* a request arrives and its handler runs up to the end of its first await
Begin(first_step) ==
    /\ Len(calls) < MaxCalls
    /\ Cardinality(InFlight) < MaxInFlight
    /\ calls' = Append(calls, first_step)
    /\ UNCHANGED <<users, redis, process>>

\* a later step of call i, which leaves it as `c`
Step(i, c) == calls' = [calls EXCEPT ![i] = c] /\ UNCHANGED process

At(i, op, pc) == calls[i].op = op /\ calls[i].pc = pc

(***************************************************************************)
(* register (POST /register)                                               *)
(***************************************************************************)
\* mutant: the existing-user check is skipped
RegisterLookup_NoCheck(c) == [c EXCEPT !.pc = "set_code"]

\* existing_user = await repo.get_user_by_email(...); 400 when found
RegisterLookup(c) ==
    LET existing_user == get_user_by_email(users, c.email)
    IN  IF existing_user # NoUser
        THEN Return([c EXCEPT !.user = existing_user], AlreadyRegistered)
        ELSE [c EXCEPT !.pc = "set_code"]

Register ==
    \E pw \in Passwords :
        Begin(RegisterLookup(NewCall("register", FirstEmail, pw, None, Finished)))

\* code = generate_verification_code(); await redis_client.setex(reg_confirm)
RegisterSetCode(i) ==
    LET c == calls[i]
    IN  /\ At(i, "register", "set_code")
        /\ \E code \in generate_verification_code :
            /\ redis' = Setex(redis, RegKey(c.email), CODE_EXPIRATION_SECONDS, code)
            /\ Step(i, [c EXCEPT !.pc = "set_hash", !.sent_code = code,
                                 !.wrote = @ \cup {RegKey(c.email)},
                                 !.stored = @ \cup {<<RegKey(c.email),
                                                      CODE_EXPIRATION_SECONDS, code>>}])
        /\ UNCHANGED users

\* password_hash = get_password_hash(...); await redis_client.setex(pwd_hash)
RegisterSetHash(i) ==
    LET c == calls[i]
    IN  /\ At(i, "register", "set_hash")
        /\ \E salt \in Salts :
            LET password_hash == get_password_hash(c.password, salt)
            IN  /\ redis' = Setex(redis, PwdKey(c.email), CODE_EXPIRATION_SECONDS,
                                  password_hash)
                /\ Step(i, [c EXCEPT !.pc = "mail",
                                     !.wrote = @ \cup {PwdKey(c.email)},
                                     !.stored = @ \cup {<<PwdKey(c.email),
                                                          CODE_EXPIRATION_SECONDS,
                                                          password_hash>>}])
        /\ UNCHANGED users

\* mutant: a failed delivery removes the two entries again
RegisterMail_Rollback(i) ==
    LET c == calls[i]
        asked == [c EXCEPT !.mail_code = c.sent_code, !.mail_after = c.wrote]
    IN  /\ At(i, "register", "mail")
        /\ \E email_sent \in BOOLEAN :
            IF email_sent
            THEN /\ Step(i, Return([asked EXCEPT !.mailed = TRUE],
                                   RegisterAccepted(c.email)))
                 /\ UNCHANGED redis
            ELSE /\ Step(i, Return(asked, NotificationFailure))
                 /\ redis' = Delete(Delete(redis, RegKey(c.email)), PwdKey(c.email))
        /\ UNCHANGED users

\* mutant: the Notifier is handed a code generated anew
RegisterMail_FreshCode(i) ==
    LET c == calls[i]
    IN  /\ At(i, "register", "mail")
        /\ \E email_sent \in BOOLEAN, code \in generate_verification_code :
            LET asked == [c EXCEPT !.mail_code = code, !.mail_after = c.wrote]
            IN  Step(i, IF email_sent
                        THEN Return([asked EXCEPT !.mailed = TRUE],
                                    RegisterAccepted(c.email))
                        ELSE Return(asked, NotificationFailure))
        /\ UNCHANGED <<users, redis>>

\* email_sent = await send_verification_email(...); 500 when not sent
RegisterMailed(c, email_sent) ==
    LET asked == [c EXCEPT !.mail_code = c.sent_code, !.mail_after = c.wrote]
    IN  IF email_sent
        THEN Return([asked EXCEPT !.mailed = TRUE], RegisterAccepted(c.email))
        ELSE Return(asked, NotificationFailure)

RegisterMail(i) ==
    /\ At(i, "register", "mail")
    /\ \E email_sent \in BOOLEAN : Step(i, RegisterMailed(calls[i], email_sent))
    /\ UNCHANGED <<users, redis>>

(***************************************************************************)
(* verify (POST /verify)                                                   *)
(***************************************************************************)
\* mutant: only the absence of a stored code is checked
CodeRejected_AbsentOnly(stored_code, submitted) == stored_code = None

\* mutant: a missing stored code is not refused
CodeRejected_MismatchOnly(stored_code, submitted) ==
    stored_code # None /\ stored_code # submitted

\* if not stored_code or stored_code != verification.code
CodeRejected(stored_code, submitted) ==
    stored_code = None \/ stored_code # submitted

\* stored_code = await redis_client.get(reg_confirm); 400 on absent/mismatch
VerifyGetCode(c) ==
    LET stored_code == Get(redis, RegKey(c.email))
        got == [c EXCEPT !.stored_code = stored_code,
                         !.saw = redis[RegKey(c.email)].state,
                         !.read = @ \cup {RegKey(c.email)}]
    IN  IF CodeRejected(stored_code, c.code)
        THEN Return(got, InvalidOrExpiredCode)
        ELSE [got EXCEPT !.pc = "get_hash"]

\* mutant: a refused code removes the stored one
Verify_ConsumeOnFailure ==
    \E code \in SubmittedCodes :
        LET c == VerifyGetCode(NewCall("verify", FirstEmail, None, code, Finished))
        IN  /\ Len(calls) < MaxCalls
            /\ Cardinality(InFlight) < MaxInFlight
            /\ calls' = Append(calls, c)
            /\ redis' = IF c.resp = InvalidOrExpiredCode
                         THEN Delete(redis, RegKey(c.email))
                         ELSE redis
            /\ UNCHANGED <<users, process>>

Verify ==
    \E code \in SubmittedCodes :
        Begin(VerifyGetCode(NewCall("verify", FirstEmail, None, code, Finished)))

\* mutant: a missing password hash is not refused
VerifyGetHash_NoCheck(i) ==
    LET c == calls[i]
        password_hash == Get(redis, PwdKey(c.email))
        got == [c EXCEPT !.read = @ \cup {PwdKey(c.email)}]
    IN  /\ At(i, "verify", "get_hash")
        /\ Step(i, [got EXCEPT !.pc = "create", !.password_hash = password_hash])
        /\ UNCHANGED <<users, redis>>

\* password_hash = await redis_client.get(pwd_hash); 400 when absent
VerifyGetHash(i) ==
    LET c == calls[i]
        password_hash == Get(redis, PwdKey(c.email))
        got == [c EXCEPT !.read = @ \cup {PwdKey(c.email)}]
    IN  /\ At(i, "verify", "get_hash")
        /\ Step(i, IF password_hash = NoHash
                   THEN Return(got, PasswordContextExpired)
                   ELSE [got EXCEPT !.pc = "create", !.password_hash = password_hash])
        /\ UNCHANGED <<users, redis>>

\* user = await repo.create_user(...); IntegrityError -> rollback -> 400
VerifyCreate(i) ==
    LET c == calls[i]
        user_data == [email |-> c.email, hashed_password |-> c.password_hash]
    IN  /\ At(i, "verify", "create")
        /\ IF UniqueViolation(users, c.email)
           THEN /\ Step(i, Return(c, DuplicateUser))
                /\ UNCHANGED users
           ELSE /\ users' = Commit(users, user_data)
                /\ Step(i, [c EXCEPT !.pc = "del_code", !.created = TRUE,
                                     !.user = users'[Len(users')]])
        /\ UNCHANGED redis

\* mutant: reg_confirm is left in the store
VerifyDelCode_Skip(i) ==
    /\ At(i, "verify", "del_code")
    /\ Step(i, [calls[i] EXCEPT !.pc = "del_hash"])
    /\ UNCHANGED <<users, redis>>

\* await redis_client.client.delete(reg_confirm)
VerifyDelCode(i) ==
    LET c == calls[i]
    IN  /\ At(i, "verify", "del_code")
        /\ redis' = Delete(redis, RegKey(c.email))
        /\ Step(i, [c EXCEPT !.pc = "del_hash", !.deleted = @ \cup {RegKey(c.email)}])
        /\ UNCHANGED users

\* await redis_client.client.delete(pwd_hash); token; return 201
VerifyDelHash(i) ==
    LET c == calls[i]
        access_token == create_access_token([sub |-> c.user.email])
    IN  /\ At(i, "verify", "del_hash")
        /\ redis' = Delete(redis, PwdKey(c.email))
        /\ Step(i, Return([c EXCEPT !.deleted = @ \cup {PwdKey(c.email)},
                                    !.left = LiveKeys(redis', c.email)],
                          VerifyCreated(c.user, access_token)))
        /\ UNCHANGED users

(***************************************************************************)
(* send_login_code (POST /login/send_code)                                 *)
(***************************************************************************)
\* mutant: the password is not verified
SendLoginLookup_NoPasswordCheck(c) ==
    LET user == get_user_by_email(users, c.email)
    IN  IF user = NoUser
        THEN Return(c, InvalidCredentials)
        ELSE [c EXCEPT !.pc = "set_code", !.user = user]

\* mutant: a missing user is reported as such
SendLoginLookup_UserNotFound(c) ==
    LET user == get_user_by_email(users, c.email)
    IN  IF user = NoUser
        THEN Return(c, UserNotFound)
        ELSE IF ~verify_password(c.password, user.hashed_password)
        THEN Return([c EXCEPT !.user = user], InvalidCredentials)
        ELSE [c EXCEPT !.pc = "set_code", !.user = user]

\* user = await repo.get_user_by_email(...); verify_password(...); 400
SendLoginLookup(c) ==
    LET user == get_user_by_email(users, c.email)
    IN  IF user = NoUser
        THEN Return(c, InvalidCredentials)
        ELSE IF ~verify_password(c.password, user.hashed_password)
        THEN Return([c EXCEPT !.user = user], InvalidCredentials)
        ELSE [c EXCEPT !.pc = "set_code", !.user = user]

SendLoginCode ==
    \E e \in Emails, pw \in Passwords :
        Begin(SendLoginLookup(NewCall("send_login_code", e, pw, None, Finished)))

\* code = generate_verification_code(); await redis_client.setex(login_code)
SendLoginSetCode(i) ==
    LET c == calls[i]
    IN  /\ At(i, "send_login_code", "set_code")
        /\ \E code \in generate_verification_code :
            /\ redis' = Setex(redis, LoginKey(c.user.email), CODE_EXPIRATION_SECONDS, code)
            /\ Step(i, [c EXCEPT !.pc = "mail", !.sent_code = code,
                                 !.wrote = @ \cup {LoginKey(c.user.email)},
                                 !.stored = @ \cup {<<LoginKey(c.user.email),
                                                      CODE_EXPIRATION_SECONDS, code>>}])
        /\ UNCHANGED users

\* email_sent = await send_verification_email(...); 500 when not sent
SendLoginMailed(c, email_sent) ==
    LET asked == [c EXCEPT !.mail_code = c.sent_code, !.mail_after = c.wrote]
    IN  IF email_sent
        THEN Return([asked EXCEPT !.mailed = TRUE], LoginCodeSent)
        ELSE Return(asked, NotificationFailure)

SendLoginMail(i) ==
    /\ At(i, "send_login_code", "mail")
    /\ \E email_sent \in BOOLEAN : Step(i, SendLoginMailed(calls[i], email_sent))
    /\ UNCHANGED <<users, redis>>

(***************************************************************************)
(* verify_login_code (POST /login/verify_code)                             *)
(***************************************************************************)
\* user = await repo.get_user_by_email(...); 400 when absent
LoginVerifyLookup(c) ==
    LET user == get_user_by_email(users, c.email)
    IN  IF user = NoUser
        THEN Return(c, UserNotFound)
        ELSE [c EXCEPT !.pc = "get_code", !.user = user]

VerifyLoginCode ==
    \E code \in SubmittedCodes :
        Begin(LoginVerifyLookup(
                  NewCall("verify_login_code", FirstEmail, None, code, Finished)))

\* stored_code = await redis_client.get(login_code); 400 on absent/mismatch
LoginVerifyGetCode(i) ==
    LET c == calls[i]
        stored_code == Get(redis, LoginKey(c.user.email))
        got == [c EXCEPT !.stored_code = stored_code,
                         !.saw = redis[LoginKey(c.user.email)].state,
                         !.read = @ \cup {LoginKey(c.user.email)}]
    IN  /\ At(i, "verify_login_code", "get_code")
        /\ Step(i, IF CodeRejected(stored_code, c.code)
                   THEN Return(got, InvalidOrExpiredCode)
                   ELSE [got EXCEPT !.pc = "del_code"])
        /\ UNCHANGED <<users, redis>>

\* await redis_client.client.delete(login_code); token; return 200
LoginVerifyDelCode(i) ==
    LET c == calls[i]
        access_token == create_access_token([sub |-> c.user.email])
    IN  /\ At(i, "verify_login_code", "del_code")
        /\ redis' = Delete(redis, LoginKey(c.user.email))
        /\ Step(i, Return([c EXCEPT !.deleted = @ \cup {LoginKey(c.user.email)}],
                          LoginOk(c.user, access_token)))
        /\ UNCHANGED users

(***************************************************************************)
(* Passage of time: the store ages its entries and expires them.           *)
(***************************************************************************)
Age(entry) ==
    IF entry.state # "live" THEN entry
    ELSE IF entry.ttl > 1 THEN Live(entry.value, entry.ttl - 1)
    ELSE Expired

Tick ==
    /\ \E k \in Keys : redis[k].state = "live"
    /\ redis' = [k \in Keys |-> Age(redis[k])]
    /\ UNCHANGED <<users, calls, process>>

(***************************************************************************)
(* Specifications.                                                         *)
(***************************************************************************)
RegistrationStep ==
    \/ \E i \in DOMAIN calls : RegisterSetCode(i)
    \/ \E i \in DOMAIN calls : RegisterSetHash(i)
    \/ \E i \in DOMAIN calls : RegisterMail(i)
    \/ \E i \in DOMAIN calls : VerifyGetHash(i)
    \/ \E i \in DOMAIN calls : VerifyCreate(i)
    \/ \E i \in DOMAIN calls : VerifyDelCode(i)
    \/ \E i \in DOMAIN calls : VerifyDelHash(i)

LoginStep ==
    \/ \E i \in DOMAIN calls : SendLoginSetCode(i)
    \/ \E i \in DOMAIN calls : SendLoginMail(i)
    \/ \E i \in DOMAIN calls : LoginVerifyGetCode(i)
    \/ \E i \in DOMAIN calls : LoginVerifyDelCode(i)

\* all four endpoints
Next ==
    \/ Register
    \/ Verify
    \/ SendLoginCode
    \/ VerifyLoginCode
    \/ RegistrationStep
    \/ LoginStep
    \/ Tick

Spec == Init /\ [][Next]_vars

\* the registration endpoints alone: /register and /verify
NextRegistration ==
    \/ Register
    \/ Verify
    \/ RegistrationStep
    \/ Tick

SpecRegistration == Init /\ [][NextRegistration]_vars

\* the login endpoints alone: /login/send_code and /login/verify_code
NextLogin ==
    \/ SendLoginCode
    \/ VerifyLoginCode
    \/ LoginStep
    \/ Tick

SpecLogin == Init /\ [][NextLogin]_vars

\* one client of the registration endpoints on a fresh deployment: every
\* request is sent after the previous response has arrived
InitSequential ==
    /\ users = <<>>
    /\ redis = EmptyRedis
    /\ calls = <<>>
    /\ Serving

BeginSequential(first_step) ==
    /\ Len(calls) < MaxSequentialCalls
    /\ InFlight = {}
    /\ calls' = Append(calls, first_step)
    /\ UNCHANGED <<users, redis, process>>

RegisterSequential ==
    \E pw \in Passwords :
        BeginSequential(RegisterLookup(
                            NewCall("register", FirstEmail, pw, None, Finished)))

VerifySequential ==
    \E code \in SubmittedCodes :
        BeginSequential(VerifyGetCode(
                            NewCall("verify", FirstEmail, None, code, Finished)))

NextSequential ==
    \/ RegisterSequential
    \/ VerifySequential
    \/ RegistrationStep
    \/ Tick

SpecSequential == InitSequential /\ [][NextSequential]_vars

\* two accounts side by side: the verification endpoints called for either
\* email, against stores that hold a pending registration for the second
\* email and a login code for each User that exists
SecondEmail == "b@x.com"
SecondPassword == "pw2"
SecondCode == ToString(MaxCode)

PendingSecondRegistration(store) ==
    Setex(Setex(store, RegKey(SecondEmail), CODE_EXPIRATION_SECONDS, SecondCode),
          PwdKey(SecondEmail), CODE_EXPIRATION_SECONDS,
          get_password_hash(SecondPassword, FirstSalt))
BothUsers ==
    Commit(RegisteredUser,
           [email |-> SecondEmail,
            hashed_password |-> get_password_hash(SecondPassword, FirstSalt)])
BothPendingLogin ==
    Setex(PendingLogin, LoginKey(SecondEmail), CODE_EXPIRATION_SECONDS, SecondCode)

SnapshotsTwoEmails ==
    { <<(<<>>), PendingSecondRegistration(PendingRegistration)>>,
      <<RegisteredUser, PendingSecondRegistration(PendingLogin)>>,
      <<BothUsers, BothPendingLogin>> }

InitTwoEmails ==
    /\ \E s \in SnapshotsTwoEmails : users = s[1] /\ redis = s[2]
    /\ calls = <<>>
    /\ Serving

VerifyAny ==
    \E e \in Emails, code \in SubmittedCodes :
        Begin(VerifyGetCode(NewCall("verify", e, None, code, Finished)))

VerifyLoginCodeAny ==
    \E e \in Emails, code \in SubmittedCodes :
        Begin(LoginVerifyLookup(NewCall("verify_login_code", e, None, code, Finished)))

VerifyStep ==
    \/ \E i \in DOMAIN calls : VerifyGetHash(i)
    \/ \E i \in DOMAIN calls : VerifyCreate(i)
    \/ \E i \in DOMAIN calls : VerifyDelCode(i)
    \/ \E i \in DOMAIN calls : VerifyDelHash(i)
    \/ \E i \in DOMAIN calls : LoginVerifyGetCode(i)
    \/ \E i \in DOMAIN calls : LoginVerifyDelCode(i)

NextTwoEmails ==
    \/ VerifyAny
    \/ VerifyLoginCodeAny
    \/ VerifyStep
    \/ Tick

SpecTwoEmails == InitTwoEmails /\ [][NextTwoEmails]_vars

(***************************************************************************)
(* The RedisClient singleton on its own: initialize, close, setex and get  *)
(* are its methods; the handlers delete through the client attribute       *)
(* (redis_client.client.delete).  The methods are called in any order.     *)
(* "sent" is a command issued on the connection of the client object.      *)
(***************************************************************************)
InitRedisClient ==
    /\ users = <<>>
    /\ redis = EmptyRedis
    /\ calls = <<>>
    /\ database = NewDatabase
    /\ redis_client = NewRedisClient
    /\ lifespan = NewLifespan
    /\ trace = <<>>
    /\ token = NoTokenCall
    /\ settings = Configured
    /\ mail = <<>>
    /\ MeteorologyIdle

\* one method call: the object before and after it, what the caller got,
\* and whether a command went out on the connection
Event(op, after, outcome, sent) ==
    [op |-> op, before |-> redis_client, after |-> after,
     outcome |-> outcome, sent |-> sent]

Call(event) ==
    /\ Len(trace) < MaxOps
    /\ redis_client' = event.after
    /\ trace' = Append(trace, event)
    /\ UNCHANGED <<users, redis, calls, database, lifespan, token, settings, mail, meteorology>>

\* await redis_client.initialize(url)
Initialize ==
    \E ok \in BOOLEAN :
        Call(Event("initialize", RedisInitialize(redis_client, ok),
                   IF InitializeRaises(redis_client, ok) THEN "raised"
                   ELSE "returned",
                   \* the ping
                   ~redis_client._is_initialized))

\* await redis_client.close()
Close ==
    \E ok \in BOOLEAN :
        Call(Event("close", RedisClose(redis_client, ok),
                   IF CloseRaises(redis_client, ok) THEN "raised"
                   ELSE "returned",
                   redis_client.client # None))

\* RedisClient.setex / RedisClient.get: RuntimeError unless initialized
Guarded(op) ==
    Call(Event(op, redis_client,
               IF redis_client._is_initialized THEN "returned"
               ELSE "RuntimeError",
               redis_client._is_initialized))
SetexCall == Guarded("setex")
GetCall == Guarded("get")

\* await redis_client.client.delete(key): no check of the flag; None has no
\* attribute delete
DeleteCall ==
    Call(Event("delete", redis_client,
               IF redis_client.client = None THEN "AttributeError"
               ELSE "returned",
               redis_client.client # None))

NextRedisClient ==
    \/ Initialize
    \/ Close
    \/ SetexCall
    \/ GetCall
    \/ DeleteCall

SpecRedisClient == InitRedisClient /\ [][NextRedisClient]_vars

(***************************************************************************)
(* The lifespan of the application (main.py): startup connects the         *)
(* database and then initializes Redis, the application serves at the      *)
(* yield, and the finally block closes what is connected.  The singletons  *)
(* are module-level objects: a second run in the same process finds them   *)
(* as the first run left them.                                             *)
(***************************************************************************)
InitLifespan ==
    /\ users = <<>>
    /\ redis = EmptyRedis
    /\ calls = <<>>
    /\ database = NewDatabase
    /\ redis_client = NewRedisClient
    /\ lifespan = NewLifespan
    /\ trace = <<>>
    /\ token = NoTokenCall
    /\ settings = Configured
    /\ mail = <<>>
    /\ MeteorologyIdle

Lifespan(next) ==
    /\ lifespan' = next
    /\ UNCHANGED <<users, redis, calls, trace, token, settings, mail, meteorology>>

\* the application is started: the context manager is entered
LifespanEnter ==
    /\ lifespan.pc = "idle"
    /\ lifespan.run < MaxRuns
    /\ Lifespan([NewLifespan EXCEPT !.pc = "connect", !.run = lifespan.run + 1,
                                    !.connected = database._is_connected,
                                    !.initialized = redis_client._is_initialized])
    /\ UNCHANGED <<database, redis_client>>

\* await database.connect()
LifespanConnect ==
    /\ lifespan.pc = "connect"
    /\ \E ok \in BOOLEAN :
          /\ database' = DatabaseConnect(database, ok)
          /\ Lifespan(IF ConnectRaises(database, ok)
                      THEN [lifespan EXCEPT !.pc = "sleep"]
                      ELSE [lifespan EXCEPT !.pc = "initialize", !.connected = TRUE])
    /\ UNCHANGED redis_client

\* await redis_client.initialize(settings.REDIS_URL)
LifespanInitialize ==
    /\ lifespan.pc = "initialize"
    /\ \E ok \in BOOLEAN :
          /\ redis_client' = RedisInitialize(redis_client, ok)
          /\ Lifespan(IF InitializeRaises(redis_client, ok)
                      THEN [lifespan EXCEPT !.pc = "sleep"]
                      ELSE [lifespan EXCEPT !.pc = "yield", !.initialized = TRUE])
    /\ UNCHANGED database

\* yield: the application serves until it is shut down, or until an
\* exception is thrown into the context manager
LifespanYield ==
    /\ lifespan.pc = "yield"
    /\ \E thrown \in BOOLEAN :
          Lifespan([lifespan EXCEPT !.pc = IF thrown THEN "sleep" ELSE "disconnect"])
    /\ UNCHANGED <<database, redis_client>>

\* except Exception: await asyncio.sleep(5); raise
LifespanSleep ==
    /\ lifespan.pc = "sleep"
    /\ Lifespan([lifespan EXCEPT !.pc = "disconnect", !.raised = TRUE])
    /\ UNCHANGED <<database, redis_client>>

\* mutant: an exception of database.disconnect() leaves the finally block
LifespanDisconnect_Unguarded ==
    /\ lifespan.pc = "disconnect"
    /\ IF database._is_connected
       THEN \E ok \in BOOLEAN :
              /\ database' = DatabaseDisconnect(database, ok)
              /\ Lifespan([lifespan EXCEPT
                     !.pc = IF DisconnectRaises(database, ok) THEN "idle" ELSE "close",
                     !.disconnects = @ + 1,
                     !.disconnect_raised = DisconnectRaises(database, ok)])
       ELSE /\ Lifespan([lifespan EXCEPT !.pc = "close"])
            /\ UNCHANGED database
    /\ UNCHANGED redis_client

\* finally: if database.is_connected: try: await database.disconnect()
\*          except Exception: log
LifespanDisconnect ==
    /\ lifespan.pc = "disconnect"
    /\ IF database._is_connected
       THEN \E ok \in BOOLEAN :
              /\ database' = DatabaseDisconnect(database, ok)
              /\ Lifespan([lifespan EXCEPT
                     !.pc = "close",
                     !.disconnects = @ + 1,
                     !.disconnect_raised = DisconnectRaises(database, ok)])
       ELSE /\ Lifespan([lifespan EXCEPT !.pc = "close"])
            /\ UNCHANGED database
    /\ UNCHANGED redis_client

\* if redis_client.is_initialized: try: await redis_client.close()
\* except Exception: log; the context manager is left
LifespanClose ==
    /\ lifespan.pc = "close"
    /\ IF redis_client._is_initialized
       THEN \E ok \in BOOLEAN :
              /\ redis_client' = RedisClose(redis_client, ok)
              /\ Lifespan([lifespan EXCEPT !.pc = "idle", !.closes = @ + 1])
       ELSE /\ Lifespan([lifespan EXCEPT !.pc = "idle"])
            /\ UNCHANGED redis_client
    /\ UNCHANGED database

\* the handlers and the helpers of security.py use the store at any point
\* of the run: a request may still be in flight when the shutdown begins
NextLifespan ==
    \/ LifespanEnter
    \/ LifespanConnect
    \/ LifespanInitialize
    \/ LifespanYield
    \/ LifespanSleep
    \/ LifespanDisconnect
    \/ LifespanClose
    \/ SetexCall
    \/ GetCall
    \/ DeleteCall

SpecLifespan == InitLifespan /\ [][NextLifespan]_vars

(***************************************************************************)
(* The token issuer on its own: create_access_token applied to a subject,  *)
(* an optional lifetime, and the clock of the server at the call.          *)
(***************************************************************************)
\* lifetimes a caller may pass, in minutes
Lifetimes == {0, 15, 60}
\* moments of the call (UTC, minutes) and UTC offsets of the server's zone
Moments == {0, 600, 1440}
UtcOffsets == {0 - 300, 0, 180}

InitToken ==
    /\ users = <<>>
    /\ redis = EmptyRedis
    /\ calls = <<>>
    /\ database = DatabaseConnect(NewDatabase, TRUE)
    /\ redis_client = RedisInitialize(NewRedisClient, TRUE)
    /\ lifespan = [NewLifespan EXCEPT !.pc = "yield", !.run = 1,
                                      !.connected = TRUE, !.initialized = TRUE]
    /\ trace = <<>>
    /\ settings = Configured
    /\ mail = <<>>
    /\ MeteorologyIdle
    /\ \E e \in Emails, d \in {NoDelta} \cup {timedelta(m) : m \in Lifetimes},
          t \in Moments, z \in UtcOffsets :
            token = [data |-> [sub |-> e], expires_delta |-> d,
                     utcnow |-> t, utcoffset |-> z, encoded |-> NoPayload]

CreateAccessToken ==
    /\ token.encoded = NoPayload
    /\ token' = [token EXCEPT !.encoded =
                    jwt_encode(to_encode(token.data, token.expires_delta,
                                         datetime_now(token.utcnow, token.utcoffset)))]
    /\ UNCHANGED <<users, redis, calls, database, redis_client, lifespan, trace,
                   settings, mail, meteorology>>

NextToken == CreateAccessToken

SpecToken == InitToken /\ [][NextToken]_vars

(***************************************************************************)
(* The Notifier in steps.  send_verification_email checks the settings,    *)
(* builds the message and then awaits connect, starttls (without SSL),     *)
(* login, send_message and quit on an aiosmtplib.SMTP object.  The server  *)
(* answers an await with success, with an error, or not at all; the SMTP   *)
(* object is created without a timeout argument, so the timeout of the     *)
(* library (60 seconds per operation) ends an unanswered await with an     *)
(* exception.  Every exception is caught and turned into `return False`.   *)
(***************************************************************************)
SmtpAwaits == {"connect", "starttls", "login", "send_message", "quit"}

\* the await that follows a successful one
NextAwait(pc) ==
    IF pc = "connect"
    THEN (IF settings.EMAIL_USE_SSL THEN "login" ELSE "starttls")
    ELSE IF pc = "starttls" THEN "login"
    ELSE IF pc = "login" THEN "send_message"
    ELSE "quit"

\* one call of send_verification_email, made by call `call` of a handler
NewMail(call) ==
    [call |-> call, pc |-> "start",
     \* an await the server has not answered
     waiting |-> FALSE,
     \* the return value, once pc = "returned"
     value |-> FALSE,
     \* history: whether connect was awaited, whether send_message
     \* succeeded, where an exception was raised, and whether the server
     \* left an await unanswered
     opened |-> FALSE, sent |-> FALSE, failed |-> "none", silent |-> FALSE]

\* mutant: no except clause, the exception leaves the function
Caught_Propagates(m, at) == [m EXCEPT !.pc = "raised", !.waiting = FALSE, !.failed = at]

\* except Exception: log; return False
Caught(m, at) ==
    [m EXCEPT !.pc = "returned", !.value = FALSE, !.waiting = FALSE, !.failed = at]

MailOf(i) == {k \in DOMAIN mail : mail[k].call = i}

\* the call of send_verification_email up to its first await
SendVerificationEmail(i) ==
    /\ i \in DOMAIN calls
    /\ calls[i].pc = "mail"
    /\ MailOf(i) = {}
    /\ \E built \in BOOLEAN :
          mail' = Append(mail,
                    IF settings.unset # {}
                    THEN [NewMail(i) EXCEPT !.pc = "returned", !.value = FALSE]
                    ELSE IF built THEN [NewMail(i) EXCEPT !.pc = "connect"]
                    ELSE Caught(NewMail(i), "build"))
    /\ UNCHANGED <<users, redis, calls, database, redis_client, lifespan, trace,
                   token, settings, meteorology>>

Answers == {"ok", "error", "silent"}

\* one await on the SMTP object and the answer of the server
SmtpAwait(k) ==
    LET m == mail[k]
        awaited == [m EXCEPT !.opened = TRUE]
    IN  /\ m.pc \in SmtpAwaits
        /\ ~m.waiting
        /\ \E answer \in Answers :
              mail' = [mail EXCEPT ![k] =
                  IF answer = "silent"
                  THEN [awaited EXCEPT !.waiting = TRUE, !.silent = TRUE]
                  ELSE IF answer = "error" THEN Caught(awaited, m.pc)
                  ELSE IF m.pc = "quit"
                       THEN [awaited EXCEPT !.pc = "returned", !.value = TRUE]
                       ELSE [awaited EXCEPT !.pc = NextAwait(m.pc),
                                            !.sent = (m.pc = "send_message")]]
        /\ UNCHANGED <<users, redis, calls, database, redis_client, lifespan,
                       trace, token, settings, meteorology>>

\* mutant: an unanswered await is never ended
SmtpTimeout_Never(k) ==
    /\ FALSE
    /\ UNCHANGED vars

\* the timeout of the SMTP object ends an unanswered await with an exception
SmtpTimeout(k) ==
    /\ mail[k].waiting
    /\ mail' = [mail EXCEPT ![k] = Caught(mail[k], mail[k].pc)]
    /\ UNCHANGED <<users, redis, calls, database, redis_client, lifespan,
                   trace, token, settings, meteorology>>

\* the handler goes on with the value send_verification_email returned
MailReturned(i) ==
    /\ i \in DOMAIN calls
    /\ calls[i].pc = "mail"
    /\ \E k \in MailOf(i) :
          /\ mail[k].pc = "returned"
          /\ Step(i, IF calls[i].op = "register"
                      THEN RegisterMailed(calls[i], mail[k].value)
                      ELSE SendLoginMailed(calls[i], mail[k].value))
    /\ UNCHANGED <<users, redis>>

\* the deployments: the settings complete or with one value left empty,
\* with and without SSL; no account yet, or the account of the first user
InitNotifier ==
    /\ \E table \in {<<>>, RegisteredUser} : users = table
    /\ redis = EmptyRedis
    /\ calls = <<>>
    /\ ServingObjects
    /\ \E unset \in {{}} \cup {{n} : n \in EmailSettings}, ssl \in BOOLEAN :
          settings = [unset |-> unset, EMAIL_USE_SSL |-> ssl]
    /\ mail = <<>>
    /\ MeteorologyIdle

NotifierStep ==
    \/ \E i \in DOMAIN calls : RegisterSetCode(i)
    \/ \E i \in DOMAIN calls : RegisterSetHash(i)
    \/ \E i \in DOMAIN calls : SendLoginSetCode(i)
    \/ \E i \in DOMAIN calls : SendVerificationEmail(i)
    \/ \E k \in DOMAIN mail : SmtpAwait(k)
    \/ \E k \in DOMAIN mail : SmtpTimeout(k)
    \/ \E i \in DOMAIN calls : MailReturned(i)

NextNotifier ==
    \/ Len(calls) < MaxMailCalls /\ Register
    \/ Len(calls) < MaxMailCalls /\ SendLoginCode
    \/ NotifierStep

\* the event loop runs a task whose await has completed, and the timer of
\* an unanswered SMTP operation fires
SpecNotifier == InitNotifier /\ [][NextNotifier]_vars /\ WF_vars(NotifierStep)

(***************************************************************************)
(* Failing stores.  Any await on the users table or on Redis may raise     *)
(* instead of returning; `text` is str(e) of the exception.  register and  *)
(* send_login_code log and re-raise (except Exception: raise), verify and  *)
(* verify_login_code turn the exception into a 500 whose detail quotes it. *)
(* send_verification_email catches its own exceptions, so the mail step    *)
(* does not raise.                                                         *)
(***************************************************************************)
ErrorTexts == {"connection refused", "timeout"}

\* the except clauses at the end of each handler
ErrorResponse(op, text) ==
    IF op \in {"register", "send_login_code"} THEN InternalServerError
    ELSE IF op = "verify" THEN VerifyError(text)
    ELSE LoginError(text)

Raise(c, text) ==
    Return([c EXCEPT !.error = [at |-> c.pc, text |-> text]],
           ErrorResponse(c.op, text))

\* the first await of a handler raises (get_session, the user lookup, or
\* the first read of Redis)
BeginRaises ==
    \E text \in ErrorTexts :
        \/ \E op \in {"register", "send_login_code"}, pw \in Passwords :
              Begin(Raise(NewCall(op, FirstEmail, pw, None, Finished), text))
        \/ \E op \in {"verify", "verify_login_code"}, code \in SubmittedCodes :
              Begin(Raise(NewCall(op, FirstEmail, None, code, Finished), text))

\* a later await on a store raises, except the one in create_user
StoreAwaits == {"set_code", "set_hash", "get_hash", "get_code", "del_code", "del_hash"}
StepRaises(i) ==
    /\ i \in InFlight
    /\ calls[i].pc \in StoreAwaits
    /\ \E text \in ErrorTexts : Step(i, Raise(calls[i], text))
    /\ UNCHANGED <<users, redis>>

\* create_user raises something other than IntegrityError: either
\* session.commit() raised, or the commit went through and session.refresh()
\* raised; the except clause runs session.rollback() and re-raises
CreateRaises(i) ==
    LET c == calls[i]
        user_data == [email |-> c.email, hashed_password |-> c.password_hash]
    IN  /\ At(i, "verify", "create")
        /\ \E text \in ErrorTexts, committed \in BOOLEAN :
              /\ committed => ~UniqueViolation(users, c.email)
              /\ users' = IF committed THEN Commit(users, user_data) ELSE users
              /\ Step(i, Raise(c, text))
        /\ UNCHANGED redis

NextFailures ==
    \/ Register
    \/ Verify
    \/ SendLoginCode
    \/ VerifyLoginCode
    \/ RegistrationStep
    \/ LoginStep
    \/ BeginRaises
    \/ \E i \in DOMAIN calls : StepRaises(i)
    \/ \E i \in DOMAIN calls : CreateRaises(i)

SpecFailures == Init /\ [][NextFailures]_vars

(***************************************************************************)
(* Properties.                                                             *)
(***************************************************************************)
Calls == DOMAIN calls
IsCall(i, op) == calls[i].op = op
\* call i had returned when call j started
Before(i, j) == i \in calls[j].before
\* the two calls overlap in time
Concurrent(i, j) == i # j /\ ~Before(i, j) /\ ~Before(j, i)
Succeeded(i) == Done(calls[i]) /\ calls[i].resp.status \in {200, 201, 202}
RegKeys(email) == {RegKey(email), PwdKey(email)}

\* call r is a register that passed the existing-user check and wrote both
\* entries, call v a later verify of the same email with the code r stored,
\* which read both entries before they expired, and no other call on that
\* email ran between the start of r and the return of v
RegisterThenVerify(r, v) ==
    /\ IsCall(r, "register") /\ Done(calls[r])
    /\ calls[r].wrote = RegKeys(calls[r].email)
    /\ IsCall(v, "verify") /\ Done(calls[v])
    /\ calls[v].email = calls[r].email
    /\ Before(r, v)
    /\ calls[v].code = calls[r].sent_code
    /\ calls[v].saw = "live"
    /\ calls[v].password_hash # NoHash
    /\ \A k \in Calls \ {r, v} :
           calls[k].email = calls[r].email => Before(k, r) \/ Before(v, k)

\* C1: startRegistration for an email with no User, followed within the TTL
\* and with no other operation on that email in between by
\* completeRegistration with the stored code, ends with exactly one User
\* row for that email, and that row has is_verified = TRUE.
C1_RegisterThenVerifyYieldsVerifiedUser ==
    \A r, v \in Calls :
        RegisterThenVerify(r, v) =>
            /\ Cardinality(RowsOf(users, calls[v].email)) = 1
            /\ \A u \in RowsOf(users, calls[v].email) : users[u].is_verified = TRUE

\* two verify calls of one email that overlap in time, each of which read
\* the stored code and found it equal to the code it carries
RacingVerifies(p, q) ==
    /\ p # q
    /\ IsCall(p, "verify") /\ IsCall(q, "verify")
    /\ Done(calls[p]) /\ Done(calls[q])
    /\ calls[p].email = calls[q].email
    /\ Concurrent(p, q)
    /\ calls[p].stored_code = calls[p].code
    /\ calls[q].stored_code = calls[q].code

\* C2 as stated: of two concurrent completeRegistration calls carrying the
\* stored valid code (no entry having expired under them), exactly one
\* returns success and the other fails with DuplicateUser, whatever the
\* interleaving of their reads, the creation and the deletions.
C2_ExactlyOneSuccessOthersDuplicate ==
    \A p, q \in Calls :
        /\ RacingVerifies(p, q)
        /\ \A k \in RegKeys(calls[p].email) : redis[k].state # "expired"
        => \/ calls[p].resp.status = 201 /\ calls[q].resp = DuplicateUser
           \/ calls[q].resp.status = 201 /\ calls[p].resp = DuplicateUser

\* C2, what the handlers do guarantee: of two concurrent completeRegistration
\* calls carrying the stored valid code at most one returns success; the
\* other one fails with DuplicateUser only when it reached the user
\* creation, and otherwise with PasswordContextExpired (its read of pwd_hash
\* came after the winner's deletion).
C2_AtMostOneSuccess ==
    \A p, q \in Calls :
        RacingVerifies(p, q) =>
            /\ ~(calls[p].resp.status = 201 /\ calls[q].resp.status = 201)
            /\ calls[q].resp.status = 201
               \/ calls[q].resp \in {DuplicateUser, PasswordContextExpired}
            /\ calls[p].resp.status = 201 /\ calls[q].password_hash # NoHash
               => calls[q].resp = DuplicateUser
            /\ calls[p].resp.status = 201 /\ calls[q].password_hash = NoHash
               => calls[q].resp = PasswordContextExpired

\* C2, the interleaving the claim has in mind: one of two racing verify
\* calls succeeded, the other one was refused by the unique constraint
C2_Witness ==
    \E p, q \in Calls :
        /\ RacingVerifies(p, q)
        /\ calls[p].resp.status = 201
        /\ calls[q].resp = DuplicateUser

\* C3: a login code is single-use: of the completeLogin calls that consume
\* one written login code (no startLogin rewrote it after either of them
\* started), at most one returns a Session Token, also when they overlap.
C3_LoginCodeSingleUse ==
    \A p, q \in Calls :
        /\ p # q
        /\ IsCall(p, "verify_login_code") /\ IsCall(q, "verify_login_code")
        /\ calls[p].email = calls[q].email
        /\ \A w \in Calls :
               LoginKey(calls[p].email) \in calls[w].wrote
               => Before(w, p) /\ Before(w, q)
        => ~(Succeeded(p) /\ Succeeded(q))

\* C4: a verify call whose submitted code differs from the stored code (or
\* finds none stored) fails with InvalidOrExpiredCode, creates no User,
\* deletes nothing and gets no token, whatever pwd_hash holds.
C4_WrongCodeRejected ==
    \A v \in Calls :
        IsCall(v, "verify") /\ calls[v].stored_code # calls[v].code =>
            /\ Done(calls[v])
            /\ calls[v].resp = InvalidOrExpiredCode
            /\ ~calls[v].created
            /\ calls[v].deleted = {}

\* C4 witness: a verify call was refused for a code other than the stored
\* one while the pwd_hash entry was live
C4_Witness ==
    \E v \in Calls :
        /\ IsCall(v, "verify")
        /\ calls[v].saw = "live"
        /\ calls[v].stored_code # calls[v].code
        /\ redis[PwdKey(calls[v].email)].state = "live"
        /\ calls[v].resp = InvalidOrExpiredCode

\* a register call of the same email that overlaps call v in time
RacingRegisters(v) ==
    {r \in Calls : /\ IsCall(r, "register")
                   /\ calls[r].email = calls[v].email
                   /\ Concurrent(r, v)}

\* C5 as stated: right after a verify call returned success, get on
\* reg_confirm and on pwd_hash both return absent, and both were deleted
\* before the token was issued.
C5_KeysAbsentAfterSuccess ==
    \A v \in Calls :
        IsCall(v, "verify") /\ Succeeded(v) =>
            /\ calls[v].deleted = RegKeys(calls[v].email)
            /\ calls[v].left = {}

\* C5 amended: a verify call that returned success deleted both keys before
\* its token was issued, and right after its return get on either key
\* returns absent unless a register call of the same email, running
\* concurrently, wrote that key again.
C5_KeysAbsentUnlessRewritten ==
    \A v \in Calls :
        IsCall(v, "verify") /\ Succeeded(v) =>
            /\ calls[v].deleted = RegKeys(calls[v].email)
            /\ calls[v].left \subseteq UNION {calls[r].wrote : r \in RacingRegisters(v)}

\* C5 witness: a verify call returned success, both keys deleted and absent
C5_Witness ==
    \E v \in Calls :
        /\ IsCall(v, "verify") /\ Succeeded(v)
        /\ calls[v].deleted = RegKeys(calls[v].email)
        /\ calls[v].left = {}

\* verify call q repeats verify call p (same email, same code) after p
\* returned success, and no register call of that email overlapped p
Replay(p, q) ==
    /\ IsCall(p, "verify") /\ IsCall(q, "verify")
    /\ Succeeded(p)
    /\ Before(p, q)
    /\ calls[q].email = calls[p].email
    /\ calls[q].code = calls[p].code
    /\ RacingRegisters(p) = {}

\* C6: a verify call repeated after it succeeded, with no register call in
\* between, fails with InvalidOrExpiredCode: neither DuplicateUser nor
\* success.
C6_ReplayRejected ==
    \A p, q \in Calls :
        Replay(p, q) => Done(calls[q]) /\ calls[q].resp = InvalidOrExpiredCode

\* C6 witness: a successful verify call was repeated and refused
C6_Witness ==
    \E p, q \in Calls : Replay(p, q) /\ calls[q].resp = InvalidOrExpiredCode

\* C7: a verify call that reads reg_confirm after the store expired it fails
\* with InvalidOrExpiredCode and creates no User, also when it carries the
\* code that was issued.
C7_ExpiredCodeRejected ==
    \A v \in Calls :
        IsCall(v, "verify") /\ calls[v].saw = "expired" =>
            /\ Done(calls[v])
            /\ calls[v].resp = InvalidOrExpiredCode
            /\ ~calls[v].created

\* C7 witness: a register call stored a code, the TTL elapsed, and a verify
\* call with that very code was refused
C7_Witness ==
    \E r, v \in Calls :
        /\ IsCall(r, "register") /\ IsCall(v, "verify")
        /\ calls[r].wrote = RegKeys(calls[r].email)
        /\ Before(r, v)
        /\ calls[v].email = calls[r].email
        /\ calls[v].code = calls[r].sent_code
        /\ calls[v].saw = "expired"
        /\ calls[v].resp = InvalidOrExpiredCode
        /\ users = <<>>

\* the two ways in which send_login_code refuses the credentials
NoSuchUser(p) ==
    IsCall(p, "send_login_code") /\ ~calls[p].had_user
WrongPassword(p) ==
    /\ IsCall(p, "send_login_code") /\ calls[p].had_user
    /\ ~verify_password(calls[p].password,
                        get_user_by_email(users, calls[p].email).hashed_password)

\* C8: send_login_code answers an email without User and an email whose
\* User has another password with the same response, and in both cases
\* writes no login_code entry and sends no mail.
C8_SameInvalidCredentials ==
    \A p, q \in Calls :
        (NoSuchUser(p) \/ WrongPassword(p)) /\ (NoSuchUser(q) \/ WrongPassword(q)) =>
            /\ Done(calls[p])
            /\ calls[p].resp.status = 400
            /\ calls[p].resp = calls[q].resp
            /\ calls[p].wrote = {}
            /\ ~calls[p].mailed

\* C8 witness: one call was refused for a missing user, another one for a
\* wrong password
C8_Witness ==
    \E p, q \in Calls :
        /\ NoSuchUser(p) /\ WrongPassword(q)
        /\ calls[p].resp = InvalidCredentials
        /\ calls[q].resp = InvalidCredentials

\* C9: the users table holds at most one row per email, and a create that
\* the store refused added no row.
C9_OneUserPerEmail ==
    /\ \A e \in Emails : Cardinality(RowsOf(users, e)) <= 1
    /\ \A v \in Calls : calls[v].resp = DuplicateUser => ~calls[v].created

\* C9 witness: the store refused a second create and the email has one row
C9_Witness ==
    \E v \in Calls :
        /\ calls[v].resp = DuplicateUser
        /\ Cardinality(RowsOf(users, calls[v].email)) = 1

\* C10: a register call for an email that already has a User fails with
\* AlreadyRegistered, writes neither registration key and sends no mail.
C10_AlreadyRegistered ==
    \A r \in Calls :
        IsCall(r, "register") /\ calls[r].had_user =>
            /\ Done(calls[r])
            /\ calls[r].resp = AlreadyRegistered
            /\ calls[r].wrote = {}
            /\ ~calls[r].mailed

\* C10 witness: a register call was refused for an email that has a User
C10_Witness ==
    \E r \in Calls :
        /\ IsCall(r, "register") /\ calls[r].had_user
        /\ calls[r].resp = AlreadyRegistered

\* C11: a register call that returned success stored exactly two entries,
\* a generated code under reg_confirm and a hash of its password under
\* pwd_hash, both with the time CODE_EXPIRATION_SECONDS; both were written
\* when the Notifier was asked, and the Notifier got the code that was
\* stored.
C11_BothWrittenBeforeMail ==
    \A r \in Calls :
        IsCall(r, "register") /\ Succeeded(r) =>
            /\ \E code \in generate_verification_code, salt \in Salts :
                   /\ calls[r].stored =
                          {<<RegKey(calls[r].email), CODE_EXPIRATION_SECONDS, code>>,
                           <<PwdKey(calls[r].email), CODE_EXPIRATION_SECONDS,
                             get_password_hash(calls[r].password, salt)>>}
                   /\ calls[r].mail_code = code
            /\ \A w \in calls[r].stored :
                   w[1][1] = "pwd_hash" => verify_password(calls[r].password, w[3])
            /\ calls[r].mail_after = RegKeys(calls[r].email)

\* C11 witness: a register call returned 202 after it stored the code it
\* mailed and the hash of its password
C11_Witness ==
    \E r \in Calls :
        /\ IsCall(r, "register") /\ Succeeded(r)
        /\ calls[r].mailed
        /\ calls[r].mail_code = calls[r].sent_code
        /\ <<RegKey(calls[r].email), CODE_EXPIRATION_SECONDS, calls[r].sent_code>>
               \in calls[r].stored
        /\ calls[r].wrote = RegKeys(calls[r].email)

\* the Notifier did not deliver the code of register call r
DeliveryFailed(r) ==
    /\ IsCall(r, "register") /\ Done(calls[r])
    /\ calls[r].mail_code # None /\ ~calls[r].mailed

\* C12: a register call whose delivery failed returns NotificationFailure
\* and has written both entries and deleted none; the step that reports the
\* failure leaves the store as it is; and a verify call that follows with
\* the stored code, within the TTL, succeeds and creates the User.
C12_FailedDeliveryKeepsEntries ==
    /\ [](\A r \in Calls :
             DeliveryFailed(r) =>
                 /\ calls[r].resp = NotificationFailure
                 /\ calls[r].wrote = RegKeys(calls[r].email)
                 /\ calls[r].deleted = {})
    /\ [](\A r, v \in Calls :
             DeliveryFailed(r) /\ RegisterThenVerify(r, v) =>
                 /\ calls[v].resp.status = 201
                 /\ calls[v].created
                 /\ Cardinality(RowsOf(users, calls[v].email)) = 1)
    /\ [][\A r \in Calls :
             calls[r].resp # NotificationFailure
             /\ calls'[r].resp = NotificationFailure => redis' = redis]_vars

\* C12 witness: the delivery of a register call failed, and the verify call
\* that followed with the stored code created the User
C12_Witness ==
    \E r, v \in Calls :
        /\ DeliveryFailed(r) /\ RegisterThenVerify(r, v)
        /\ calls[r].resp = NotificationFailure
        /\ calls[v].resp.status = 201
        /\ RowsOf(users, calls[v].email) # {}

\* register call r wrote both entries, verify call v of the same email
\* started after r returned, and no other call on that email ran between the
\* start of r and the return of v
LastRegisterBefore(r, v) ==
    /\ IsCall(r, "register") /\ Done(calls[r])
    /\ calls[r].wrote = RegKeys(calls[r].email)
    /\ IsCall(v, "verify") /\ Done(calls[v])
    /\ calls[v].email = calls[r].email
    /\ Before(r, v)
    /\ \A k \in Calls \ {r, v} :
           calls[k].email = calls[r].email => Before(k, r) \/ Before(v, k)

\* register call r is a repeated one: an earlier register call of the same
\* email had written both entries, and the email is still unregistered
Reissue(q, r) ==
    /\ IsCall(q, "register") /\ IsCall(r, "register")
    /\ calls[q].email = calls[r].email
    /\ calls[q].wrote = RegKeys(calls[q].email)
    /\ Before(q, r)
    /\ ~calls[r].had_user

\* C13: after a repeated register call r, a verify call succeeds only with
\* the code of r, and then the User has the hash of the password of r; with
\* the code of r read within the TTL it does succeed; with any other code,
\* the code of the earlier call included, it fails with
\* InvalidOrExpiredCode.
C13_ReissueOverwrites ==
    \A q, r, v \in Calls :
        Reissue(q, r) /\ LastRegisterBefore(r, v) =>
            /\ calls[v].resp.status = 201 =>
                   /\ calls[v].code = calls[r].sent_code
                   /\ verify_password(calls[r].password,
                          get_user_by_email(users, calls[v].email).hashed_password)
            /\ calls[v].code = calls[r].sent_code
               /\ calls[v].saw = "live" /\ calls[v].password_hash # NoHash
               => calls[v].resp.status = 201
            /\ calls[v].code # calls[r].sent_code
               => calls[v].resp = InvalidOrExpiredCode

\* C13 witness: two register calls with different codes and passwords, then
\* a verify call with the second code created the User with the second
\* password and not the first
C13_Witness ==
    \E q, r, v \in Calls :
        /\ Reissue(q, r) /\ LastRegisterBefore(r, v)
        /\ calls[q].sent_code # calls[r].sent_code
        /\ calls[q].password # calls[r].password
        /\ calls[v].code = calls[r].sent_code
        /\ calls[v].resp.status = 201
        /\ verify_password(calls[r].password,
               get_user_by_email(users, calls[v].email).hashed_password)
        /\ ~verify_password(calls[q].password,
                get_user_by_email(users, calls[v].email).hashed_password)

\* verify call v found the stored code equal to the submitted one, read
\* pwd_hash and got nothing
HashMissing(v) ==
    /\ IsCall(v, "verify")
    /\ calls[v].stored_code = calls[v].code
    /\ PwdKey(calls[v].email) \in calls[v].read
    /\ calls[v].password_hash = NoHash

\* C14: a verify call whose code matched but which found no pwd_hash entry
\* fails with PasswordContextExpired, creates no User, deletes nothing and
\* gets no token.
C14_PasswordContextExpired ==
    \A v \in Calls :
        HashMissing(v) =>
            /\ Done(calls[v])
            /\ calls[v].resp = PasswordContextExpired
            /\ ~calls[v].created
            /\ calls[v].deleted = {}

\* C14 witness: a verify call with the matching code was refused for the
\* missing hash while the code entry was still live, and no User exists
C14_Witness ==
    \E v \in Calls :
        /\ HashMissing(v)
        /\ calls[v].resp = PasswordContextExpired
        /\ redis[RegKey(calls[v].email)].state = "live"
        /\ redis[PwdKey(calls[v].email)].state # "live"
        /\ users = <<>>

\* verify call p was refused for a code other than the live stored one;
\* verify call q of the same email, started after p returned, carries the
\* code that p found stored; and no other call on that email ran between the
\* start of p and the return of q (no register call in particular)
FailedThenVerify(p, q) ==
    /\ IsCall(p, "verify") /\ IsCall(q, "verify")
    /\ calls[p].saw = "live"
    /\ calls[p].stored_code # calls[p].code
    /\ calls[p].resp = InvalidOrExpiredCode
    /\ calls[q].email = calls[p].email
    /\ Before(p, q) /\ Done(calls[q])
    /\ calls[q].code = calls[p].stored_code
    /\ \A k \in Calls \ {p, q} :
           calls[k].email = calls[p].email => Before(k, p) \/ Before(q, k)

\* C15 as stated: after a verify call failed on a mismatched code, a verify
\* call with the originally issued code does not succeed until register is
\* called again.
C15_FailedVerifyEndsFlow ==
    \A p, q \in Calls :
        FailedThenVerify(p, q) => calls[q].resp.status # 201

\* C15 amended: a verify call that failed on a mismatched code leaves the
\* flow where it was: the step that refuses the code leaves the store as it
\* is, the call deleted nothing, and a verify call that follows with the
\* originally issued code and reads both entries within the TTL succeeds,
\* without register being called again.
C15_FailedVerifyKeepsFlow ==
    /\ [](\A p, q \in Calls :
             FailedThenVerify(p, q) =>
                 /\ calls[p].deleted = {}
                 /\ calls[q].saw = "live" /\ calls[q].password_hash # NoHash
                    => calls[q].resp.status = 201 /\ calls[q].created)
    /\ [][\A p \in DOMAIN calls' :
             /\ calls'[p].resp = InvalidOrExpiredCode
             /\ p \in DOMAIN calls => calls[p].resp # InvalidOrExpiredCode
             => redis' = redis]_vars

\* C15 witness: a verify call failed on a mismatched code and the next one,
\* with the stored code, created the User
C15_Witness ==
    \E p, q \in Calls :
        /\ FailedThenVerify(p, q)
        /\ calls[q].resp.status = 201
        /\ RowsOf(users, calls[q].email) # {}

LoginOps == {"send_login_code", "verify_login_code"}

\* C16: every step keeps the rows of the users table as they are; a step
\* that changes the table appends one row, for the email of a verify call
\* whose submitted code equalled the stored one; and a step of a login call
\* leaves the table unchanged.
C16_UsersOnlyAppendedByVerify ==
    [][/\ \A u \in DOMAIN users : u \in DOMAIN users' /\ users'[u] = users[u]
       /\ users' # users =>
              \E v \in Calls :
                  /\ IsCall(v, "verify")
                  /\ calls[v].stored_code = calls[v].code
                  /\ ~calls[v].created /\ calls'[v].created
                  /\ calls'[v].user.email = calls[v].email
                  /\ users' = Append(users, calls'[v].user)
       /\ \A k \in DOMAIN calls' :
              /\ calls'[k].op \in LoginOps
              /\ k \in DOMAIN calls => calls'[k] # calls[k]
              => users' = users]_vars

\* C16 witness: a verify call with the stored code created the User, and a
\* login call that ran afterwards for that email found the same row
C16_Witness ==
    \E v, k \in Calls :
        /\ IsCall(v, "verify") /\ calls[v].created
        /\ calls[v].stored_code = calls[v].code
        /\ IsCall(k, "send_login_code") /\ Succeeded(k)
        /\ Before(v, k)
        /\ calls[k].user = calls[v].user
        /\ get_user_by_email(users, calls[v].email) = calls[v].user

\* the login_code keys that call c wrote
LoginKeysWritten(c) == {k \in calls[c].wrote : k[1] = "login_code"}

\* C17: a login_code entry exists only for an email that has a User row;
\* the calls that wrote one are send_login_code calls that found the User
\* of their email and whose password verifies against its stored hash; and
\* a call that answered InvalidCredentials wrote nothing.
C17_LoginCodeOnlyForVerifiedPassword ==
    /\ \A e \in Emails :
           redis[<<"login_code", e>>] # Absent => RowsOf(users, e) # {}
    /\ \A c \in Calls :
           LoginKeysWritten(c) # {} =>
               /\ IsCall(c, "send_login_code")
               /\ calls[c].wrote = {<<"login_code", calls[c].email>>}
               /\ calls[c].user # NoUser
               /\ calls[c].user = get_user_by_email(users, calls[c].email)
               /\ verify_password(calls[c].password, calls[c].user.hashed_password)
    /\ \A c \in Calls :
           calls[c].resp = InvalidCredentials => calls[c].wrote = {}

\* C17 witness: a send_login_code call with the right password wrote the
\* entry, which is live with the generated code, and another one with a
\* wrong password was refused
C17_Witness ==
    \E c, d \in Calls :
        /\ IsCall(c, "send_login_code")
        /\ LoginKeysWritten(c) # {}
        /\ redis[<<"login_code", calls[c].email>>].state = "live"
        /\ redis[<<"login_code", calls[c].email>>].value = calls[c].sent_code
        /\ IsCall(d, "send_login_code")
        /\ calls[d].email = calls[c].email
        /\ calls[d].resp = InvalidCredentials

\* C18: a verify_login_code call checks the user before the code: for an
\* email without User it fails with InvalidCredentials and reads no key; for
\* an email with User whose login_code is absent or differs from the
\* submitted code it fails with InvalidOrExpiredCode; in both cases it
\* deletes no key and gets no token.
C18_UserCheckedBeforeCode ==
    \A p \in Calls :
        IsCall(p, "verify_login_code") =>
            /\ ~calls[p].had_user =>
                   /\ Done(calls[p])
                   /\ calls[p].resp = InvalidCredentials
                   /\ calls[p].read = {}
                   /\ calls[p].deleted = {}
            /\ calls[p].had_user /\ calls[p].read # {}
               /\ calls[p].stored_code # calls[p].code =>
                   /\ Done(calls[p])
                   /\ calls[p].resp = InvalidOrExpiredCode
                   /\ calls[p].deleted = {}

\* the calls that returned a Session Token
TokenOps == {"verify", "verify_login_code"}
GotToken(c) == calls[c].op \in TokenOps /\ Succeeded(c)

\* C19: a call that returned a Session Token got it for its own email: the
\* subject of the token and the email of the response are the email of the
\* request, the user_id is the id of the users row with that email, and the
\* code it matched was read under the key of that email only.
C19_TokenBoundToRequestEmail ==
    \A c \in Calls :
        GotToken(c) =>
            /\ calls[c].resp.access_token.sub = calls[c].email
            /\ calls[c].resp.email = calls[c].email
            /\ RowsOf(users, calls[c].email) # {}
            /\ calls[c].resp.user_id = get_user_by_email(users, calls[c].email).id
            /\ calls[c].stored_code = calls[c].code
            /\ calls[c].read # {}
            /\ \A k \in calls[c].read : k[2] = calls[c].email

\* C19 witness: with a User for each of two emails, a call for the second
\* email got the token of the second User, and a call for the second email
\* with the code stored for the first one was refused
C19_Witness ==
    \E c, d \in Calls :
        /\ GotToken(c)
        /\ calls[c].email = SecondEmail
        /\ calls[c].resp.access_token.sub = SecondEmail
        /\ calls[c].resp.user_id = 2
        /\ get_user_by_email(users, FirstEmail).id = 1
        /\ calls[d].op \in TokenOps
        /\ calls[d].email = SecondEmail
        /\ calls[d].code = FirstCode /\ calls[d].saw = "live"
        /\ calls[d].resp = InvalidOrExpiredCode

WriteOps == {"register", "send_login_code"}

\* call c writes key k in this step, with the time CODE_EXPIRATION_SECONDS
WrittenBy(c, k) ==
    /\ calls[c].op \in WriteOps
    /\ redis'[k].state = "live"
    /\ redis'[k].ttl = CODE_EXPIRATION_SECONDS
    /\ <<k, CODE_EXPIRATION_SECONDS, redis'[k].value>>
           \in calls'[c].stored \ calls[c].stored

\* C20: every entry of the store has an expiry: a live entry has between 1
\* and CODE_EXPIRATION_SECONDS units left; and in every step an entry stays
\* as it is, loses lifetime (or expires) with its value unchanged, is
\* removed, or is written by a register or send_login_code call with
\* CODE_EXPIRATION_SECONDS to live: nothing else prolongs an entry.
C20_EveryEntryExpires ==
    /\ [](\A k \in DOMAIN redis :
             redis[k].state = "live" =>
                 redis[k].ttl >= 1 /\ redis[k].ttl <= CODE_EXPIRATION_SECONDS)
    /\ [][\A k \in DOMAIN redis :
             \/ redis'[k] = redis[k]
             \/ redis'[k] = Absent
             \/ redis[k].state = "live" /\ redis'[k] = Expired
             \/ /\ redis[k].state = "live" /\ redis'[k].state = "live"
                /\ redis'[k].value = redis[k].value
                /\ redis'[k].ttl < redis[k].ttl
             \/ \E c \in Calls : WrittenBy(c, k)]_vars

\* C20 witness: an entry written by a register or send_login_code call is
\* live with less than CODE_EXPIRATION_SECONDS left, and another entry has
\* expired
C20_Witness ==
    \E c \in Calls, k, x \in DOMAIN redis :
        /\ calls[c].op \in WriteOps
        /\ redis[k].state = "live"
        /\ <<k, CODE_EXPIRATION_SECONDS, redis[k].value>> \in calls[c].stored
        /\ redis[k].ttl < CODE_EXPIRATION_SECONDS
        /\ redis[x] = Expired

\* C21: every store operation the handlers use (setex, get, delete) fails
\* with an error, without issuing a command on a connection, when the
\* RedisClient is not initialized (never initialized, initialization failed,
\* or closed).
StoreOps == {"setex", "get", "delete"}
C21_UninitializedStoreFailsFast ==
    \A i \in DOMAIN trace :
        (trace[i].op \in StoreOps /\ ~trace[i].before._is_initialized)
            => (trace[i].outcome # "returned" /\ ~trace[i].sent)

\* C22: when the creation of the User inside verify fails, for a uniqueness
\* violation or for a store error, the users table after the failed step
\* equals the users table before it.
CreateFailed(i) ==
    /\ i \in DOMAIN calls
    /\ At(i, "verify", "create")
    /\ calls'[i].pc = "done"
C22_FailedCreateLeavesUsersUnchanged ==
    [][\A i \in DOMAIN calls : CreateFailed(i) => users' = users]_vars

\* C23: when a store fails during one of the four operations, the response
\* does not depend on the text of the internal error: two calls of the same
\* operation with the same input that fail at the same await with different
\* error texts get the same response.
SameFailure(p, q) ==
    /\ calls[p].op = calls[q].op
    /\ calls[p].email = calls[q].email
    /\ calls[p].password = calls[q].password
    /\ calls[p].code = calls[q].code
    /\ calls[p].error # NoError
    /\ calls[q].error # NoError
    /\ calls[p].error.at = calls[q].error.at
C23_ErrorResponseIsOpaque ==
    \A p, q \in Finished : SameFailure(p, q) => calls[p].resp = calls[q].resp

\* C24: an issued token encodes the subject, the time of issue and the
\* expiry, and the expiry is the time of issue plus the lifetime passed, or
\* plus ACCESS_TOKEN_EXPIRE_MINUTES when no lifetime is passed.
Lifetime(delta) ==
    IF delta.passed THEN delta.minutes ELSE ACCESS_TOKEN_EXPIRE_MINUTES
C24_TokenEncodesSubjectIssueAndExpiry ==
    token.encoded # NoPayload =>
        /\ "sub" \in DOMAIN token.encoded
        /\ token.encoded.sub = token.data.sub
        /\ "exp" \in DOMAIN token.encoded
        /\ token.encoded.exp = token.utcnow + Lifetime(token.expires_delta)
        /\ "iat" \in DOMAIN token.encoded
        /\ token.encoded.iat = token.utcnow

\* C25: every register and send_login_code call eventually returns a
\* response, also when the mail server leaves awaits of the Notifier
\* unanswered.
Returns(i) == (i \in DOMAIN calls) ~> (i \in DOMAIN calls /\ Done(calls[i]))
C28_NotifierReturnsBool ==
    \A k \in DOMAIN mail :
        /\ mail[k].pc # "raised"
        /\ mail[k].pc = "returned" =>
              /\ mail[k].failed # "none" => ~mail[k].value
              /\ mail[k].value => mail[k].sent
              /\ settings.unset # {} => (~mail[k].value /\ ~mail[k].opened)
\* a call of send_verification_email has returned False after a failed login
C28_Witness ==
    \E k \in DOMAIN mail :
        /\ mail[k].pc = "returned"
        /\ mail[k].failed = "login"
        /\ ~mail[k].value

\* C26: whenever verify succeeds with code c, the hash in the new users row
\* is the hash of the password passed to the register call that generated c,
\* also when register calls for the email run concurrently.
\* Register call r is the one call that generated code c.
Generated(r, c) ==
    /\ IsCall(r, "register")
    /\ calls[r].sent_code = c
    /\ c # FirstCode
    /\ \A q \in Calls \ {r} : IsCall(q, "register") => calls[q].sent_code # c
C26_CodeAndPasswordStayPaired ==
    \A v, r \in Calls :
        (IsCall(v, "verify") /\ calls[v].created /\ Generated(r, calls[v].code))
            => verify_password(calls[r].password, calls[v].user.hashed_password)

\* C27 as stated: once every call has returned, an email with a users row
\* has no live reg_confirm or pwd_hash entry, also when a register call that
\* passed its existing-user check ran concurrently with the creating verify.
Registered(email) == RowsOf(users, email) # {}
C27_NoPendingEntryForRegisteredEmail ==
    \A e \in Emails :
        (InFlight = {} /\ Registered(e)) => LiveKeys(redis, e) = {}

\* the register calls of the email that overlapped the verify call which
\* created its users row
OverlappedCreation(email) ==
    {r \in Calls :
        /\ IsCall(r, "register")
        /\ calls[r].email = email
        /\ \E v \in Calls :
              /\ IsCall(v, "verify") /\ calls[v].created
              /\ calls[v].email = email
              /\ Concurrent(r, v)}

\* C27 amended: once every call has returned, the live reg_confirm and
\* pwd_hash entries of an email with a users row are entries written by a
\* register call that overlapped the verify call which created the row.
C27_PendingEntryOnlyFromOverlappingRegister ==
    \A e \in Emails :
        (InFlight = {} /\ Registered(e)) =>
            LiveKeys(redis, e) \subseteq
                UNION {calls[r].wrote : r \in OverlappedCreation(e)}

\* C27 witness: every call has returned, a verify call created the row, and
\* a register call that overlapped it had passed its existing-user check
C27_Witness ==
    /\ InFlight = {}
    /\ \E r \in OverlappedCreation(FirstEmail) : calls[r].wrote # {}

\* C29: in a run of the lifespan the database is connected before Redis is
\* initialized; when the run has ended, on every exit path, each of the two
\* resources that reached its connected / initialized state was closed
\* exactly once and the other not at all; an exception of the database
\* disconnect does not keep Redis from being closed.
Exited == lifespan.pc = "idle" /\ lifespan.run > 0
C29_LifespanClosesWhatItOpened ==
    /\ lifespan.pc = "initialize" => database._is_connected
    /\ lifespan.initialized /\ lifespan.run = 1 => lifespan.connected
    /\ lifespan.disconnects <= 1 /\ lifespan.closes <= 1
    /\ Exited =>
          /\ lifespan.disconnects = (IF lifespan.connected THEN 1 ELSE 0)
          /\ lifespan.closes = (IF lifespan.initialized THEN 1 ELSE 0)
          /\ (lifespan.disconnect_raised /\ lifespan.initialized)
                 => lifespan.closes = 1
\* C29 witness: a run has ended in which the database disconnect raised and
\* Redis was closed
C29_Witness ==
    /\ Exited
    /\ lifespan.disconnect_raised
    /\ lifespan.closes = 1

\* the last initialize that set the flag, and the closes after it
Initializations ==
    {i \in DOMAIN trace : /\ trace[i].op = "initialize"
                          /\ ~trace[i].before._is_initialized
                          /\ trace[i].outcome = "returned"}
ClosesAfter(i) == {j \in DOMAIN trace : j > i /\ trace[j].op = "close"}

\* C30 as stated: is_initialized is true exactly between a successful
\* initialize and the next close; a failed initialize leaves it false and
\* re-raises; initialize on an initialized client does nothing; after close,
\* setex and get raise RuntimeError; is_initialized implies a client object.
C30_InitializedBetweenInitializeAndClose ==
    /\ redis_client._is_initialized
          = (\E i \in Initializations : ClosesAfter(i) = {})
    /\ redis_client._is_initialized => redis_client.client # None
    /\ \A i \in DOMAIN trace :
          LET e == trace[i]
          IN  /\ (e.op = "initialize" /\ e.outcome = "raised")
                    => ~e.after._is_initialized
              /\ (e.op = "initialize" /\ e.before._is_initialized)
                    => (e.after = e.before /\ e.outcome = "returned" /\ ~e.sent)
              /\ (e.op \in {"setex", "get"} /\ i > 1 /\ trace[i - 1].op = "close")
                    => e.outcome = "RuntimeError"

\* What holds of the lifecycle: the same, with "close" read as a close that
\* returned; a close whose client.close() raised leaves is_initialized as
\* it was.
Returned(j) == trace[j].outcome = "returned"
C30_InitializedUntilCloseReturns ==
    /\ redis_client._is_initialized
          = (\E i \in Initializations :
                 \A j \in ClosesAfter(i) : ~Returned(j))
    /\ redis_client._is_initialized => redis_client.client # None
    /\ \A i \in DOMAIN trace :
          LET e == trace[i]
          IN  /\ (e.op = "initialize" /\ e.outcome = "raised")
                    => ~e.after._is_initialized
              /\ (e.op = "initialize" /\ e.before._is_initialized)
                    => (e.after = e.before /\ e.outcome = "returned" /\ ~e.sent)
              /\ (e.op = "close" /\ ~Returned(i)) => e.after = e.before
              /\ (e.op \in {"setex", "get"} /\ i > 1
                     /\ trace[i - 1].op = "close" /\ Returned(i - 1))
                    => e.outcome = "RuntimeError"

\* initialize succeeded, close returned, and a get after it raised
\* RuntimeError
C30_CloseThenGet ==
    \E i \in Initializations :
        /\ i + 2 \in DOMAIN trace
        /\ trace[i + 1].op = "close" /\ Returned(i + 1)
        /\ trace[i + 2].op = "get" /\ trace[i + 2].outcome = "RuntimeError"

(***************************************************************************)
(* Search history (meteorology package): the tables locations and          *)
(* search_history, save_search_history_entry and delete_history_record.    *)
(* Every call has its own session; an await on the session is one step,    *)
(* and what a session flushes reaches the table when its commit returns.   *)
(* The columns that no condition reads (city_name, last_searched, the      *)
(* coordinates of a location) are left out.                                *)
(***************************************************************************)
MaxSearches == MaxCalls

\* models.Location: id and name
Location(id, name) == [id |-> id, name |-> name]

Paris == <<"P", "a", "r", "i", "s">>
Omsk == <<"O", "m", "s", "k">>
KnownLocations == <<Location(1, Paris), Location(2, Omsk)>>

\* models.SearchHistory: no unique constraint on (user_id, location_id),
\* three plain indexes only
SearchHistory(id, user_id, location_id, search_count) ==
    [id |-> id, user_id |-> user_id, location_id |-> location_id,
     search_count |-> search_count, deleted |-> FALSE]

Rows(table) == {i \in DOMAIN table : ~table[i].deleted}

\* select(SearchHistory).where(user_id == ..., location_id == ...)
RowsFor(table, user_id, location_id) ==
    {i \in Rows(table) : /\ table[i].user_id = user_id
                         /\ table[i].location_id = location_id}

\* select(SearchHistory).where(id == record_id, user_id == user_id)
RecordsFor(table, record_id, user_id) ==
    {i \in Rows(table) : table[i].id = record_id /\ table[i].user_id = user_id}

\* the ORM object a session holds: the row as it was when it was read
NoRow == [id |-> 0, search_count |-> 0]
Loaded(row) == [id |-> row.id, search_count |-> row.search_count]

\* result.scalar_one_or_none(): the row, None, or MultipleResultsFound
MultipleResultsFound(found) == Cardinality(found) > 1
scalar_one_or_none(table, found) ==
    IF found = {} THEN NoRow ELSE Loaded(table[CHOOSE i \in found : TRUE])

\* db.get(User, user_id), db.get(Location, location_id)
GetUser(user_id) == user_id \in DOMAIN users
GetLocation(location_id) == location_id \in DOMAIN locations

\* the flush of db.add(SearchHistory(..., search_count=1))
Insert(table, user_id, location_id) ==
    Append(table, SearchHistory(Len(table) + 1, user_id, location_id, 1))

\* the flush of existing.search_count += 1: UPDATE ... SET search_count =
\* <the count read + 1> WHERE id = existing.id; StaleDataError when the row
\* is gone
StaleData(table, existing) == existing.id \notin Rows(table)
Update(table, existing) ==
    [table EXCEPT ![existing.id].search_count = existing.search_count + 1]

\* the flush of db.delete(record): DELETE ... WHERE id = record.id
Delete_Row(table, record) ==
    IF record.id \in Rows(table)
    THEN [table EXCEPT ![record.id].deleted = TRUE] ELSE table

NoQuery == <<>>
NewSearch(fn, query, db, user_id, location_id, record_id) ==
    [fn |-> fn, pc |-> "start", query |-> query, db |-> db,
     user_id |-> user_id, location_id |-> location_id,
     record_id |-> record_id,
     existing |-> NoRow,       \* save: existing; delete: record
     saved |-> "none",         \* what save_search_history_entry returned
     status |-> 0,             \* the status the call answered, 0 = none yet
     error |-> "none",         \* the exception the except clause caught
     used |-> {}]              \* weather: what the call has awaited so far

\* save_search_history_entry returns: to its caller when it was called by
\* get_weather_by_location_name
SaveReturns(c, value, error) ==
    [c EXCEPT !.saved = value, !.error = error,
              !.pc = IF c.fn = "weather" THEN "fetch_weather" ELSE "done"]

\* except Exception: await db.rollback(); return False
SaveRollback(c, error) == SaveReturns(c, "False", error)

\* user = await db.get(User, user_id); if not user: return False
SaveGetUser(c, ok) ==
    IF ~ok THEN SaveRollback(c, "get")
    ELSE IF ~GetUser(c.user_id) THEN SaveReturns(c, "False", "none")
    ELSE [c EXCEPT !.pc = "get_location"]

\* location = await db.get(Location, location_id); if not location: ...
SaveGetLocation(c, ok) ==
    IF ~ok THEN SaveRollback(c, "get")
    ELSE IF ~GetLocation(c.location_id) THEN SaveReturns(c, "False", "none")
    ELSE [c EXCEPT !.pc = "select"]

\* result = await db.execute(select ...); existing = scalar_one_or_none()
SaveSelect(c, ok) ==
    LET found == RowsFor(search_history, c.user_id, c.location_id)
    IN  IF ~ok THEN SaveRollback(c, "execute")
        ELSE IF MultipleResultsFound(found)
        THEN SaveRollback(c, "MultipleResultsFound")
        ELSE [c EXCEPT !.existing = scalar_one_or_none(search_history, found),
                       !.pc = "commit"]

\* await db.commit() succeeds
SaveCommitted(c, ok) ==
    ok /\ ~(c.existing # NoRow /\ StaleData(search_history, c.existing))

\* if existing: existing.search_count += 1  else: db.add(...);
\* await db.commit(); return True
SaveCommit(c, ok) ==
    IF SaveCommitted(c, ok) THEN SaveReturns(c, "True", "none")
    ELSE SaveRollback(c, "commit")

\* mutant: what the session flushed stays when its commit fails
SaveCommitTable_NoRollback(c, ok) ==
    IF c.existing # NoRow /\ StaleData(search_history, c.existing)
    THEN search_history
    ELSE IF c.existing # NoRow THEN Update(search_history, c.existing)
    ELSE Insert(search_history, c.user_id, c.location_id)

SaveCommitTable(c, ok) ==
    IF ~SaveCommitted(c, ok) THEN search_history
    ELSE IF c.existing # NoRow THEN Update(search_history, c.existing)
    ELSE Insert(search_history, c.user_id, c.location_id)

SavePcs == {"get_user", "get_location", "select", "commit"}

\* the arguments of the calls: user 3 and location 3 do not exist
SaveArgs == {<<1, 1>>, <<2, 1>>, <<3, 1>>, <<1, 3>>}
RecordIds == {1, 2}
OwnerIds == {1, 2}

\* the state of everything but the meteorology tables and calls
auth ==
    <<users, redis, calls, database, redis_client, lifespan, trace, token,
      settings, mail>>
cache_state == <<_cache, _cache_expiry, clock, wrapped>>

\* a call of save_search_history_entry starts and runs to the end of its
\* first await
SaveBeginUpTo(max) ==
    /\ Len(searches) < max
    /\ \E args \in SaveArgs, ok \in BOOLEAN :
          searches' = Append(searches,
              SaveGetUser(NewSearch("save", NoQuery, TRUE, args[1], args[2], 0),
                          ok))
    /\ UNCHANGED <<auth, locations, search_history, cache_state>>

SaveBegin == SaveBeginUpTo(MaxSearches)

\* a call inside save_search_history_entry runs to the end of its next await
SaveStep(i) ==
    /\ searches[i].pc \in SavePcs
    /\ \E ok \in BOOLEAN :
          LET c == searches[i]
          IN  /\ searches' = [searches EXCEPT ![i] =
                     CASE c.pc = "get_user" -> SaveGetUser(c, ok)
                       [] c.pc = "get_location" -> SaveGetLocation(c, ok)
                       [] c.pc = "select" -> SaveSelect(c, ok)
                       [] c.pc = "commit" -> SaveCommit(c, ok)]
              /\ search_history' =
                     IF c.pc = "commit" THEN SaveCommitTable(c, ok)
                     ELSE search_history
    /\ UNCHANGED <<auth, locations, cache_state>>

\* delete_history_record: the except clause catches every Exception, the
\* HTTPException(404) of the try block included: await db.rollback();
\* raise HTTPException(500, f"Error deleting history record: {str(e)}")
DeleteRollback(c, error) ==
    [c EXCEPT !.status = 500, !.error = error, !.pc = "done"]

\* mutant: the lookup by record_id alone
DeleteSelect_AnyOwner(c, ok) ==
    LET found == {i \in Rows(search_history) :
                      search_history[i].id = c.record_id}
    IN  IF ~ok THEN DeleteRollback(c, "execute")
        ELSE IF found = {} THEN DeleteRollback(c, "HTTPException(404)")
        ELSE [c EXCEPT !.existing = scalar_one_or_none(search_history, found),
                       !.pc = "delete"]

\* result = await db.execute(stmt); record = result.scalar_one_or_none();
\* if not record: raise HTTPException(404, "History record not found")
DeleteSelect(c, ok) ==
    LET found == RecordsFor(search_history, c.record_id, c.user_id)
    IN  IF ~ok THEN DeleteRollback(c, "execute")
        ELSE IF found = {} THEN DeleteRollback(c, "HTTPException(404)")
        ELSE [c EXCEPT !.existing = scalar_one_or_none(search_history, found),
                       !.pc = "delete"]

\* await db.delete(record)
DeleteMark(c, ok) ==
    IF ~ok THEN DeleteRollback(c, "delete") ELSE [c EXCEPT !.pc = "commit_delete"]

\* await db.commit(); return None: status_code=204
DeleteCommit(c, ok) ==
    IF ~ok THEN DeleteRollback(c, "commit")
    ELSE [c EXCEPT !.status = 204, !.pc = "done"]

DeleteCommitTable(c, ok) ==
    IF ok THEN Delete_Row(search_history, c.existing) ELSE search_history

DeletePcs == {"delete", "commit_delete"}

\* a call of delete_history_record starts and runs to the end of its
\* first await
DeleteBegin ==
    /\ Len(searches) < MaxSearches
    /\ \E record_id \in RecordIds, user_id \in OwnerIds, ok \in BOOLEAN :
          searches' = Append(searches,
              DeleteSelect(NewSearch("delete", NoQuery, TRUE, user_id, 0,
                                     record_id), ok))
    /\ UNCHANGED <<auth, locations, search_history, cache_state>>

\* a call of delete_history_record runs to the end of its next await
DeleteStep(i) ==
    /\ searches[i].pc \in DeletePcs
    /\ \E ok \in BOOLEAN :
          LET c == searches[i]
          IN  /\ searches' = [searches EXCEPT ![i] =
                     IF c.pc = "delete" THEN DeleteMark(c, ok)
                     ELSE DeleteCommit(c, ok)]
              /\ search_history' =
                     IF c.pc = "commit_delete" THEN DeleteCommitTable(c, ok)
                     ELSE search_history
    /\ UNCHANGED <<auth, locations, cache_state>>

\* the search history when the calls start: empty, one pair searched
\* twice, or three pairs of two users
HistorySnapshots ==
    { <<>>,
      <<SearchHistory(1, 1, 1, 2)>>,
      <<SearchHistory(1, 1, 1, 1), SearchHistory(2, 2, 1, 1),
        SearchHistory(3, 1, 2, 3)>> }

\* what the functions of the package start from: both users registered,
\* two locations known, nothing cached
InitMeteorology ==
    /\ users = BothUsers
    /\ redis = EmptyRedis
    /\ calls = <<>>
    /\ ServingObjects
    /\ settings = Configured
    /\ mail = <<>>
    /\ locations = KnownLocations
    /\ searches = <<>>
    /\ _cache = <<>>
    /\ _cache_expiry = <<>>
    /\ clock = 0
    /\ wrapped = <<>>

InitHistory ==
    /\ InitMeteorology
    /\ search_history \in HistorySnapshots

NextHistory ==
    \/ SaveBegin
    \/ \E i \in DOMAIN searches : SaveStep(i)
    \/ DeleteBegin
    \/ \E i \in DOMAIN searches : DeleteStep(i)

\* saves and deletes of the search history, overlapping
SpecHistory == InitHistory /\ [][NextHistory]_vars

(***************************************************************************)
(* get_weather_by_location_name: get_or_create_location, the save of the   *)
(* search and fetch_weather_data, one step per await.  A name is the       *)
(* sequence of its characters.                                             *)
(***************************************************************************)
MaxWeatherCalls == MaxCalls - 1

Riga == <<"R", "i", "g", "a">>
Queries == { <<"p">>, <<"p", "a">>, <<"O", "M">>, <<"r", "i", "g">>,
             <<"z", "z">> }
\* user_id: None (0), a registered user, a user that does not exist
Searchers == {0, 1, 3}

Lower(ch) ==
    CASE ch = "P" -> "p" [] ch = "O" -> "o" [] ch = "M" -> "m"
      [] ch = "R" -> "r" [] OTHER -> ch

\* Location.name.ilike(f"%{query}%")
ilike(name, query) ==
    \E o \in 0..(Len(name) - Len(query)) :
        \A k \in 1..Len(query) : Lower(name[o + k]) = Lower(query[k])

\* the rows of select(Location).where(Location.name.ilike(...))
LocationsLike(query) == {i \in DOMAIN locations : ilike(locations[i].name, query)}

\* what the geocoding API knows: fetch_locations_from_api(query, 1)
fetch_locations_from_api(query) ==
    IF ilike(Riga, query) THEN <<Riga>> ELSE <<>>

\* an exception that no except clause catches leaves the function
Propagates(c, error) == [c EXCEPT !.error = error, !.pc = "done"]

\* raise HTTPException(status_code=...)
Raises(c, status) == [c EXCEPT !.status = status, !.pc = "done"]

Using(c, service) == [c EXCEPT !.used = @ \cup {service}]

\* if len(query) < 2: raise 400; if not db: raise 500; both before any await
WeatherStart(c) ==
    IF Len(c.query) < 2 THEN Raises(c, 400)
    ELSE IF ~c.db THEN Raises(c, 500)
    ELSE [c EXCEPT !.pc = "find_location"]

\* mutant: the weather is fetched without recording the search
AfterLocation_NoSave(c) == [c EXCEPT !.pc = "fetch_weather"]

\* if user_id: await save_search_history_entry(...); then the fetch
AfterLocation(c) ==
    [c EXCEPT !.pc = IF c.user_id # 0 THEN "get_user" ELSE "fetch_weather"]

\* get_or_create_location: result = await db.execute(stmt);
\* location = result.scalars().first(), found = its id or 0
WeatherFindLocation(c, ok, found) ==
    IF ~ok THEN Propagates(Using(c, "db"), "execute")
    ELSE IF found # 0
    THEN AfterLocation([Using(c, "db") EXCEPT !.location_id = found])
    ELSE [Using(c, "db") EXCEPT !.pc = "geocode"]

\* api_results = await fetch_locations_from_api(query, 1);
\* if not api_results: raise HTTPException(404)
WeatherGeocode(c, ok) ==
    IF ~ok THEN Propagates(Using(c, "geocoding"), "httpx")
    ELSE IF fetch_locations_from_api(c.query) = <<>>
    THEN Raises(Using(c, "geocoding"), 404)
    ELSE [Using(c, "geocoding") EXCEPT !.pc = "save_location"]

\* save_location: db.add(location); await db.commit()
WeatherSaveLocation(c, ok) ==
    IF ~ok THEN Propagates(c, "commit")
    ELSE [c EXCEPT !.location_id = Len(locations) + 1,
                   !.pc = "refresh_location"]

WeatherSaveLocationTable(c, ok) ==
    IF ~ok THEN locations
    ELSE Append(locations,
                Location(Len(locations) + 1,
                         fetch_locations_from_api(c.query)[1]))

\* save_location: await db.refresh(location); return location
WeatherRefreshLocation(c, ok) ==
    IF ~ok THEN Propagates(c, "refresh") ELSE AfterLocation(c)

\* weather = await fetch_weather_data(location): None on every exception;
\* if not weather: raise HTTPException(503)
WeatherFetch(c, ok) ==
    IF ~ok THEN Raises(Using(c, "weather"), 503)
    ELSE [Using(c, "weather") EXCEPT !.status = 200, !.pc = "done"]

WeatherPcs == {"find_location", "geocode", "save_location",
               "refresh_location", "fetch_weather"}

\* the step of a call that is at an await of get_weather_by_location_name
WeatherAwait(c, ok, found) ==
    CASE c.pc = "find_location" -> WeatherFindLocation(c, ok, found)
      [] c.pc = "geocode" -> WeatherGeocode(c, ok)
      [] c.pc = "save_location" -> WeatherSaveLocation(c, ok)
      [] c.pc = "refresh_location" -> WeatherRefreshLocation(c, ok)
      [] c.pc = "fetch_weather" -> WeatherFetch(c, ok)

\* first() of a select without ORDER BY: any of the matching rows
FirstOf(query) == IF LocationsLike(query) = {} THEN {0} ELSE LocationsLike(query)

\* a call of get_weather_by_location_name starts: it is answered at once,
\* or runs to the end of its first await
WeatherBegin ==
    /\ Len(searches) < MaxWeatherCalls
    /\ \E query \in Queries, user_id \in Searchers, db \in BOOLEAN,
          ok \in BOOLEAN :
          LET c == WeatherStart(NewSearch("weather", query, db, user_id, 0, 0))
          IN  \E found \in FirstOf(query) :
                 searches' = Append(searches,
                     IF c.pc = "done" THEN c
                     ELSE WeatherFindLocation(c, ok, found))
    /\ UNCHANGED <<auth, locations, search_history, cache_state>>

\* a call of get_weather_by_location_name runs to the end of its next await
WeatherStep(i) ==
    /\ searches[i].pc \in WeatherPcs
    /\ \E ok \in BOOLEAN, found \in FirstOf(searches[i].query) :
          LET c == searches[i]
          IN  /\ searches' = [searches EXCEPT ![i] = WeatherAwait(c, ok, found)]
              /\ locations' =
                     IF c.pc = "save_location"
                     THEN WeatherSaveLocationTable(c, ok) ELSE locations
    /\ UNCHANGED <<auth, search_history, cache_state>>

InitWeather ==
    /\ InitMeteorology
    /\ search_history \in HistorySnapshots

NextWeather ==
    \/ WeatherBegin
    \/ \E i \in DOMAIN searches : WeatherStep(i)
    \/ \E i \in DOMAIN searches : SaveStep(i)

SpecWeather == InitWeather /\ [][NextWeather]_vars

\* saves only, on an empty history, one more call than overlap needs: a
\* row can exist before two saves overlap
MaxSaves == MaxSearches + 1

InitSaves ==
    /\ InitMeteorology
    /\ search_history = <<>>

SaveAny == SaveBeginUpTo(MaxSaves)

NextSaves ==
    \/ SaveAny
    \/ \E i \in DOMAIN searches : SaveStep(i)

SpecSaves == InitSaves /\ [][NextSaves]_vars

(***************************************************************************)
(* cache.py: simple_cache.  The wrapper looks the key up, returns a fresh   *)
(* entry, and otherwise awaits the wrapped function and stores its result.  *)
(* Wrapper calls overlap at that await only; the two stores that follow it  *)
(* are consecutive statements of one step.                                  *)
(***************************************************************************)
expire_seconds == 2
MaxClock == 3
MaxWrapped == MaxCalls + 1

\* keyword arguments as passed: the same two, in either order
ab == << <<"a", 1>>, <<"b", 2>> >>
ba == << <<"b", 2>>, <<"a", 1>> >>

\* cache_key = f"{func.__name__}:{str(args)}:{str(kwargs)}": the name and
\* the printed arguments, the keyword arguments in the order they were passed
cache_key(name, args, kwargs) == <<name, args, kwargs>>

CacheKeys == { cache_key("f", <<>>, ab), cache_key("f", <<>>, ba) }

\* what the wrapped function returns
Results == {"sunny", "rain"}

\* mutant: an entry is used whatever its age
Fresh_NeverExpires(key) == key \in DOMAIN _cache

\* if cache_key in _cache: if datetime.now() < _cache_expiry[cache_key]
Fresh(key) == key \in DOMAIN _cache /\ clock < _cache_expiry[key]

\* d[key] = value
Store(d, key, value) == (key :> value) @@ d

NewWrapped(key) ==
    [key |-> key, pc |-> "start", invoked |-> 0, result |-> "none",
     raised |-> FALSE]

\* a call of the wrapper starts: it returns the fresh entry, or invokes the
\* wrapped function and waits for it
WrapperBegin ==
    /\ Len(wrapped) < MaxWrapped
    /\ \E key \in CacheKeys :
          wrapped' = Append(wrapped,
              IF Fresh(key)
              THEN [NewWrapped(key) EXCEPT !.result = _cache[key], !.pc = "done"]
              ELSE [NewWrapped(key) EXCEPT !.invoked = 1, !.pc = "func"])
    /\ UNCHANGED <<auth, locations, search_history, searches, _cache,
                   _cache_expiry, clock>>

\* the wrapped function returns: _cache[cache_key] = result;
\* _cache_expiry[cache_key] = datetime.now() + timedelta(seconds=...)
WrapperReturn(i) ==
    /\ wrapped[i].pc = "func"
    /\ \E result \in Results :
          /\ wrapped' = [wrapped EXCEPT ![i].result = result, ![i].pc = "done"]
          /\ _cache' = Store(_cache, wrapped[i].key, result)
          /\ _cache_expiry' =
                Store(_cache_expiry, wrapped[i].key, clock + expire_seconds)
    /\ UNCHANGED <<auth, locations, search_history, searches, clock>>

\* the wrapped function raises: the exception leaves the wrapper
WrapperRaise(i) ==
    /\ wrapped[i].pc = "func"
    /\ wrapped' = [wrapped EXCEPT ![i].raised = TRUE, ![i].pc = "done"]
    /\ UNCHANGED <<auth, locations, search_history, searches, _cache,
                   _cache_expiry, clock>>

\* a second passes
CacheTick ==
    /\ clock < MaxClock
    /\ clock' = clock + 1
    /\ UNCHANGED <<auth, locations, search_history, searches, _cache,
                   _cache_expiry, wrapped>>

\* the module is imported: both dictionaries empty
InitCache ==
    /\ InitMeteorology
    /\ search_history = <<>>

NextCache ==
    \/ WrapperBegin
    \/ \E i \in DOMAIN wrapped : WrapperReturn(i)
    \/ \E i \in DOMAIN wrapped : WrapperRaise(i)
    \/ CacheTick

SpecCache == InitCache /\ [][NextCache]_vars

\* C31: the search history keeps at most one row per (user_id, location_id)
\* and the row's search_count equals the number of save_search_history_entry
\* calls for the pair that returned True, for every sequence and every
\* interleaving of saves.
SavedTrue(user_id, location_id) ==
    {i \in DOMAIN searches : /\ searches[i].fn = "save"
                             /\ searches[i].user_id = user_id
                             /\ searches[i].location_id = location_id
                             /\ searches[i].saved = "True"}
C31_OneRowPerPairCountingSaves ==
    \A args \in SaveArgs :
        LET rows == RowsFor(search_history, args[1], args[2])
            n == Cardinality(SavedTrue(args[1], args[2]))
        IN  /\ Cardinality(rows) <= 1
            /\ rows = {} => n = 0
            /\ \A i \in rows : search_history[i].search_count = n

\* the two ways the claim fails: two rows for one pair, and one row whose
\* count is below the number of saves that returned True
C31_TwoRowsForOnePair ==
    \E args \in SaveArgs :
        Cardinality(RowsFor(search_history, args[1], args[2])) > 1
C31_LostUpdate ==
    \E args \in SaveArgs :
        LET rows == RowsFor(search_history, args[1], args[2])
        IN  /\ Cardinality(rows) = 1
            /\ \A i \in rows : search_history[i].search_count
                                   < Cardinality(SavedTrue(args[1], args[2]))

\* C32: save_search_history_entry returns False and leaves the search
\* history unchanged when the user or the location does not exist or when
\* the commit fails; it returns True only together with the committed
\* insertion or update of the row of its pair.
\* Call i takes a step: it starts, or its record changes.
Stepped(i) == i \notin DOMAIN searches \/ searches'[i] # searches[i]
\* the step adds one row with count 1 for the pair and changes no other row
Inserted(user_id, location_id) ==
    /\ Len(search_history') = Len(search_history) + 1
    /\ SubSeq(search_history', 1, Len(search_history)) = search_history
    /\ LET row == search_history'[Len(search_history')]
       IN  /\ row.user_id = user_id /\ row.location_id = location_id
           /\ row.search_count = 1 /\ ~row.deleted
\* the step writes the count the call read, plus one, to the live row of
\* the pair the call read, and changes no other row
Updated(i) ==
    /\ i \in DOMAIN searches
    /\ LET c == searches[i]
       IN  /\ c.existing.id \in RowsFor(search_history, c.user_id, c.location_id)
           /\ search_history' =
                 [search_history EXCEPT ![c.existing.id] =
                     [search_history[c.existing.id] EXCEPT !.search_count =
                          c.existing.search_count + 1]]
C32_SaveReturnsFalseWithoutEffect ==
    [][\A i \in DOMAIN searches' :
          LET d == searches'[i]
          IN  (Stepped(i) /\ d.fn = "save") =>
                /\ d.saved # "True" => search_history' = search_history
                /\ d.saved = "True" =>
                      \/ Inserted(d.user_id, d.location_id)
                      \/ Updated(i)
                /\ (d.pc = "done" /\ (\/ ~GetUser(d.user_id)
                                      \/ ~GetLocation(d.location_id)
                                      \/ d.error # "none"))
                      => d.saved = "False"]_vars

\* one save returned False because its commit failed, another returned
\* True, and one row of the history has been counted up
C32_Witness ==
    /\ \E i \in DOMAIN searches :
          /\ searches[i].fn = "save" /\ searches[i].error = "commit"
          /\ searches[i].saved = "False"
    /\ \E j \in DOMAIN searches :
          searches[j].fn = "save" /\ searches[j].saved = "True"
    /\ \E r \in Rows(search_history) : search_history[r].search_count > 1

\* C35: delete_history_record answers 404 when no history record has both
\* the given record_id and the given user_id, and deletes nothing then; it
\* answers 500 only when the lookup, the delete or the commit itself failed.
Deletes == {i \in DOMAIN searches : searches[i].fn = "delete"}
NotFound(i) == searches[i].error = "HTTPException(404)"
C35_NotFoundAnswers404 ==
    \A i \in Deletes :
        searches[i].pc = "done" =>
          /\ NotFound(i) => searches[i].status = 404
          /\ searches[i].status = 500
                => searches[i].error \in {"execute", "delete", "commit"}

\* what the code does with a record that is not found: it answers 500
C35_NotFoundAnswers500 ==
    \A i \in Deletes :
        (searches[i].pc = "done" /\ NotFound(i)) => searches[i].status = 500

\* C36: delete_history_record(record_id, user_id) removes at most the one
\* history record whose id is record_id and whose owner is user_id; every
\* record of another user and every other record of the same user is
\* unchanged by the call, whatever its outcome.
C36_DeleteTouchesOnlyItsRecord ==
    [][\A i \in DOMAIN searches' :
          LET d == searches'[i]
          IN  (Stepped(i) /\ d.fn = "delete") =>
                /\ DOMAIN search_history' = DOMAIN search_history
                /\ \A q \in DOMAIN search_history :
                      \/ search_history'[q] = search_history[q]
                      \/ /\ search_history[q].id = d.record_id
                         /\ search_history[q].user_id = d.user_id
                         /\ search_history'[q]
                              = [search_history[q] EXCEPT !.deleted = TRUE]
                /\ d.status # 204 => search_history' = search_history]_vars

\* a delete answered 204, its record is gone, and another record of the
\* same user and a record of another user are still there
C36_Witness ==
    \E i \in Deletes :
        /\ searches[i].status = 204
        /\ searches[i].record_id \in DOMAIN search_history
        /\ search_history[searches[i].record_id].deleted
        /\ \E q \in Rows(search_history) :
              search_history[q].user_id = searches[i].user_id
        /\ \E q \in Rows(search_history) :
              search_history[q].user_id # searches[i].user_id

\* C33: get_weather_by_location_name rejects a query shorter than 2
\* characters with 400 and a missing session with 500 before touching the
\* database or any upstream API; for an accepted query with a user_id it
\* records the search in the history before fetching weather, so the history
\* entry remains when the call then fails with 503.
WeatherCalls == {i \in DOMAIN searches : searches[i].fn = "weather"}
\* the call has reached the fetch of the weather
AtFetch(c) == c.pc = "fetch_weather" \/ "weather" \in c.used
Recorded(c) == RowsFor(search_history, c.user_id, c.location_id) # {}
\* rejected before any await, and 400 and 500 for these reasons only
RejectedUntouched(c) ==
    /\ Len(c.query) < 2 => (c.pc = "done" /\ c.status = 400 /\ c.used = {})
    /\ (Len(c.query) >= 2 /\ ~c.db)
          => (c.pc = "done" /\ c.status = 500 /\ c.used = {})
    /\ c.status = 400 => Len(c.query) < 2
    /\ c.status = 500 => ~c.db
    /\ c.status = 503 => "weather" \in c.used
\* the history and the locations are written before the fetch only
WrittenBeforeFetch ==
    \A i \in DOMAIN searches' :
        (Stepped(i) /\ searches'[i].fn = "weather"
            /\ (searches'[i].used = {} \/ "weather" \in searches'[i].used))
          => (search_history' = search_history /\ locations' = locations)
\* what the claim says of a call that has reached the fetch
RecordedAtFetch(c) == (c.user_id # 0 /\ AtFetch(c)) => Recorded(c)
C33_SearchRecordedBeforeFetch ==
    [][/\ WrittenBeforeFetch
       /\ (\A i \in WeatherCalls :
              /\ RejectedUntouched(searches[i])
              /\ RecordedAtFetch(searches[i]))']_vars

\* C33 as the code has it: the save of the search has returned before the
\* fetch, and the entry is there, also after a 503, when it returned True;
\* when it returned False (unknown user, failed lookup or commit) the
\* weather is fetched with nothing recorded by the call.
SaveReturnedAtFetch(c) ==
    /\ (c.user_id # 0 /\ AtFetch(c))
          => /\ c.saved \in {"True", "False"}
             /\ c.saved = "True" => Recorded(c)
    /\ c.user_id = 0 => c.saved = "none"
C33_SaveReturnsBeforeFetch ==
    [][/\ WrittenBeforeFetch
       /\ (\A i \in WeatherCalls :
              /\ RejectedUntouched(searches[i])
              /\ SaveReturnedAtFetch(searches[i]))']_vars

\* a call with a user_id recorded its search in a history that was empty
\* and then failed with 503
C33_Witness ==
    \E i \in WeatherCalls :
        /\ searches[i].status = 503 /\ searches[i].saved = "True"
        /\ Rows(search_history) = {Len(search_history)}
        /\ search_history[1].user_id = searches[i].user_id
        /\ search_history[1].location_id = searches[i].location_id

\* C34: a call of the simple_cache wrapper whose key has an entry that is
\* not yet expired returns the cached result without invoking the wrapped
\* function; a call with no entry or an expired entry invokes the function
\* once and stores the result with expiry = now + expire_seconds; when the
\* function raises nothing is stored; and in every state _cache and
\* _cache_expiry have the same key set.
\* Wrapper call i starts in this step, or goes on in it.
Starts(i) == i \notin DOMAIN wrapped
GoesOn(i) == i \in DOMAIN wrapped /\ wrapped'[i] # wrapped[i]
NothingStored == _cache' = _cache /\ _cache_expiry' = _cache_expiry
NotExpired(key) ==
    \E k \in DOMAIN _cache : k = key /\ _cache_expiry[k] > clock
C34_CacheHitsUntilExpiry ==
    [][/\ DOMAIN _cache' = DOMAIN _cache_expiry'
       /\ \A i \in DOMAIN wrapped' :
             LET d == wrapped'[i]
             IN  /\ (Starts(i) /\ NotExpired(d.key))
                       => /\ d.pc = "done" /\ d.invoked = 0 /\ ~d.raised
                          /\ d.result = _cache[d.key]
                          /\ NothingStored
                 /\ (Starts(i) /\ ~NotExpired(d.key))
                       => /\ d.pc = "func" /\ d.invoked = 1
                          /\ NothingStored
                 /\ (GoesOn(i) /\ ~d.raised)
                       => /\ d.pc = "done" /\ d.invoked = 1
                          /\ d.result \in Results
                          /\ d.key \in DOMAIN _cache'
                          /\ _cache'[d.key] = d.result
                          /\ _cache_expiry'[d.key] = clock + expire_seconds
                          /\ \A k \in DOMAIN _cache :
                                k # d.key => /\ _cache'[k] = _cache[k]
                                             /\ _cache_expiry'[k] = _cache_expiry[k]
                 /\ (GoesOn(i) /\ d.raised)
                       => (d.pc = "done" /\ d.result = "none" /\ NothingStored)]_vars

\* an entry was stored, returned from the cache to a later call, expired,
\* and a call after that invoked the function again
C34_Witness ==
    \E i, j, k \in DOMAIN wrapped :
        /\ i < j /\ j < k
        /\ wrapped[i].key = wrapped[j].key /\ wrapped[j].key = wrapped[k].key
        /\ wrapped[i].invoked = 1 /\ ~wrapped[i].raised
        /\ wrapped[j].pc = "done" /\ wrapped[j].invoked = 0
        /\ wrapped[j].result = wrapped[i].result
        /\ wrapped[k].invoked = 1

====
